---- MODULE Spec2Model ----
(***************************************************************************)
(* A model of thunderhawk: the workflow orchestrator (factory.rs), the     *)
(* single-step monitor (tasks.rs), the load-test scheduler (loadtest.rs),  *)
(* the shared AppState (appstate.rs) and the HTTP handlers that trigger a  *)
(* session and query its results (main.rs).                                *)
(*                                                                         *)
(* The module holds several specifications over one set of variables:      *)
(*   SpecWorkflow  one call of start_monitoring: the orchestration of the  *)
(*                 workflows and the execution of every step;              *)
(*   Spec          the HTTP handlers and the sessions they spawn, with     *)
(*                 every lock acquisition a step of its own;               *)
(*   SpecStore     the writers of the store against a query handler;       *)
(*   SpecRetry     LoadTest::execute's retry loop;                         *)
(*   SpecCampaign  LoadTest::run_load_test's ramp loop and its workers.    *)
(* A specification leaves the variables of the others unchanged.           *)
(***************************************************************************)
EXTENDS Integers, Sequences, FiniteSets, TLC

VARIABLES
    \* AppState (appstate.rs) and its locks
    monitoring_started,         \* AppState.monitoring_started
    state_lock,                 \* holder of the outer Mutex<AppState>
    task_lock,                  \* holder of the Mutex around task_monitoring_data
    lt_lock,                    \* holder of the Mutex around load_test_monitoring_data
    task_monitoring_data,       \* workflow name -> (task name -> MonitoringData)
    load_test_monitoring_data,  \* workflow name -> (task name -> LoadTestMonitoringData)
    \* one call of start_monitoring (factory.rs)
    sm_pc,                      \* position of start_monitoring
    sm_wfs,                     \* the workflows passed to it (indices into Workflows)
    wf_pos,                     \* per workflow: index of the order group being run
    task_pc,                    \* per workflow and api: position of the monitor's execute
    task_result,                \* per workflow and api: what execute returned
    task_data,                  \* per workflow and api: the response execute got, the
                                \* MonitoringData it built and the Result it will return
    exec_count,                 \* per workflow and api: calls of execute
    send_count,                 \* per workflow and api: requests sent
    write_count,                \* per workflow and api: records written to the store
    \* the HTTP handlers (main.rs), the sessions they spawn, the store's writers
    hpc,                        \* per handler: its position
    hreq,                       \* per handler: the request it serves
    hsnap,                      \* per handler: the clone of the map it took
    hresp,                      \* per handler: the response it returned last
    sess,                       \* per session slot: a spawned start_monitoring
    wr,                         \* per writer: a call of update_(load_test_)app_state
    \* history
    last_write,                 \* per map and key: the value of the last write to it
    spawned_since_reset,        \* sessions spawned since a query last cleared the flag
    hexpect,                    \* per handler: last_write when it took its clone
    \* LoadTest::execute
    retry_count,                \* load_test_config.retry_count, an Option
    rt_pc,                      \* position in execute
    attempt,                    \* the local `attempt`
    rt_log,                     \* the results of the calls of run_load_test so far
    rt_waits,                   \* the seconds of every backoff sleep that has ended
    rt_slept,                   \* the seconds of the sleep in progress
    rt_ret,                     \* what execute returned
    \* LoadTest::run_load_test
    lt_cfg,                     \* load_test_config
    lt_pc,                      \* position in run_load_test
    current_load,               \* the local `current_load`
    elapsed,                    \* start_time.elapsed() in seconds
    ticks,                      \* the ticks of the interval so far
    permits,                    \* the free permits of the tick's semaphore
    worker,                     \* the tick's workers: waiting, inflight or their outcome
    all_results,                \* the number of Ok and of Err entries of all_results
    \* the end of run_load_test: filter, analyze_results, the metrics
    ag_pc,                      \* position after the campaign's loop
    ag_all_results,             \* all_results, entry by entry
    filtered_results,           \* the entries of the workers that got a response
    ag_metrics                  \* the tuple analyze_results returned, an Option

vars_store == <<monitoring_started, state_lock, task_lock, lt_lock,
                task_monitoring_data, load_test_monitoring_data>>
vars_wf == <<sm_pc, sm_wfs, wf_pos, task_pc, task_result, task_data,
             exec_count, send_count, write_count>>
vars_proc == <<hpc, hreq, hsnap, hresp, sess, wr, last_write, spawned_since_reset,
              hexpect>>
vars_retry == <<retry_count, rt_pc, attempt, rt_log, rt_waits, rt_slept, rt_ret>>
vars_campaign == <<lt_cfg, lt_pc, current_load, elapsed, ticks, permits, worker,
                   all_results>>
vars_agg == <<ag_pc, ag_all_results, filtered_results, ag_metrics>>
vars_lt == <<vars_retry, vars_campaign, vars_agg>>
vars == <<vars_store, vars_wf, vars_proc, vars_lt>>

----------------------------------------------------------------------------
(* Bounds and program constants *)

\* usize::MAX, the order key of a step without task_order (tasks.rs:119).
\* TLC's integers have 32 bits: the largest of them stands for it.
UsizeMax == 2147483647

\* Largest response time (ms) a request of the model takes.
MaxDurationMs == 1

\* Largest total_requests of the metrics an abstract campaign writes.
MaxLtRequests == 1

\* The largest numbers of concurrent HTTP handlers, of concurrent calls of a
\* store update and of sessions alive at once.
NumHandlers == 2
NumWriters == 2
MaxSessions == 2

\* The largest retry_count a LoadTestConfig is given.
MaxRetryCount == 3

\* The largest initial_load, max_load, spawn_rate and max_duration_secs a
\* LoadTestConfig is given.
MaxInitialLoad == 2
MaxMaxLoad == 3
MaxSpawnRate == 2
MaxDurationSecs == 2

\* Duration::from_secs(5), the backoff before a retry (loadtest.rs:85)
BackoffSecs == 5

\* sensible_max_duration_secs (loadtest.rs:142)
DefaultMaxDurationSecs == 1

\* spawn_rate.unwrap_or(1) (loadtest.rs:155)
DefaultSpawnRate == 1
\* u128::MAX (loadtest.rs:325), as the largest integer of the model
U128Max == 2147483647
\* The longest all_results and the longest response time, in milliseconds
MaxResults == 3
\* The longest list of responses whose percentile is taken
MaxListLen == 20
MaxResponseMs == 2

NoOne == << >>
None == "None"
EmptyMap == [x \in {} |-> {}]

\* The status codes a server of the model answers with: both ends of the
\* success range and two codes outside it.
StatusCodes == {200, 299, 300, 500}

----------------------------------------------------------------------------
(* Configuration: config.rs *)

\* ApiConfig (config.rs:36-48). headers_valid abstracts whether every entry of
\* `headers` parses as a header name and value; body_file whether a body file
\* is named (reading it can fail at each execute).
\* An Option is a set: {} is None and {v} is Some(v).
ApiConfig(name, order, ltest, has_cfg, hvalid, bfile) ==
    [name |-> name, task_order |-> order, url |-> "http://host/" \o name,
     method |-> "GET", load_test |-> ltest, has_load_test_config |-> has_cfg,
     headers_valid |-> hvalid, body_file |-> bfile]

\* The workflows handed to start_monitoring (factory.rs:120). Those that
\* load_workflow returns (config.rs:73-98) have a load_test_config in every
\* load_test step, validate_settings having filled it in; S4 of W2 is such a
\* step as create_monitor_tasks, a public function, also accepts: load_test
\* set and no load_test_config.
Workflows ==
    << [name |-> "W1",
        apis |-> << ApiConfig("S1", {2}, FALSE, FALSE, TRUE,  FALSE),
                    ApiConfig("S2", {1}, FALSE, FALSE, TRUE,  TRUE),
                    ApiConfig("S3", {1}, TRUE,  TRUE,  TRUE,  FALSE),
                    ApiConfig("S4", {},  FALSE, FALSE, FALSE, FALSE) >>],
       [name |-> "W2",
        apis |-> << ApiConfig("S1", {},  FALSE, FALSE, TRUE,  FALSE),
                    ApiConfig("S2", {UsizeMax}, FALSE, FALSE, FALSE, FALSE),
                    ApiConfig("S3", {},  FALSE, FALSE, FALSE, FALSE),
                    ApiConfig("S4", {1}, TRUE,  FALSE, TRUE,  FALSE) >>] >>

WfIds == DOMAIN Workflows
ApiIds(w) == DOMAIN Workflows[w].apis
Api(w, i) == Workflows[w].apis[i]
AllTasks == UNION {{<<w, i>> : i \in ApiIds(w)} : w \in WfIds}

\* The keys of the store's maps: (workflow name, task name)
Keys == {<<Workflows[t[1]].name, Api(t[1], t[2]).name>> : t \in AllTasks}

----------------------------------------------------------------------------
(* Processes: HTTP handlers, session slots, writers of the store *)

Handlers == 1..NumHandlers
Writers == 1..NumWriters
SessionIds == 1..MaxSessions

\* Who holds a lock
H(h) == <<"handler", h>>
W(p) == <<"writer", p>>

\* The values of a handler, a session slot and a writer at rest
NoRequest == [route |-> "none", workflow_names |-> {}]
NoSession == [st |-> "none", wfs |-> {}]
IdleWriter == [pc |-> "idle", sess |-> 0, t |-> <<0, 0>>, data |-> {}]
NoWrites == [k \in Keys |-> {}]

----------------------------------------------------------------------------
(* The nested maps of AppState *)

\* An insert that replaces the workflow's whole inner map.
UpsertClobber(m, w, s, d) ==
    [x \in DOMAIN m \cup {w} |-> IF x = w THEN [y \in {s} |-> d] ELSE m[x]]

\* An insert that keeps the status_code of the entry it finds.
UpsertKeepCode(m, w, s, d) ==
    LET workflow_data == IF w \in DOMAIN m THEN m[w] ELSE EmptyMap
        merged == IF s \in DOMAIN workflow_data /\ "status_code" \in DOMAIN d
                  THEN [d EXCEPT !.status_code = workflow_data[s].status_code]
                  ELSE d
    IN  [x \in DOMAIN m \cup {w} |->
            IF x = w
            THEN [y \in DOMAIN workflow_data \cup {s} |->
                     IF y = s THEN merged ELSE workflow_data[y]]
            ELSE m[x]]

\* HashMap::entry(w).or_insert_with(HashMap::new) followed by insert(s, d):
\* tasks.rs:141-146 and loadtest.rs:422-427.

Upsert(m, w, s, d) ==
    LET workflow_data == IF w \in DOMAIN m THEN m[w] ELSE EmptyMap
    IN  [x \in DOMAIN m \cup {w} |->
            IF x = w
            THEN [y \in DOMAIN workflow_data \cup {s} |->
                     IF y = s THEN d ELSE workflow_data[y]]
            ELSE m[x]]

\* HashMap::get on both levels, as an Option
HasEntry(m, w, s) == w \in DOMAIN m /\ s \in DOMAIN m[w]
Entry(m, w, s) == IF HasEntry(m, w, s) THEN {m[w][s]} ELSE {}

----------------------------------------------------------------------------
(* factory.rs: request construction, monitors, orchestration *)

\* A builder that skips what it cannot use, as the header loop of
\* Task::execute does (tasks.rs:47-54).
create_request_builder_lenient(api, file_readable) == "Ok"

\* create_request_builder (factory.rs:30-57): an invalid header or an
\* unreadable body file is an Err, anything else a request builder.
create_request_builder(api, file_readable) ==
    IF ~api.headers_valid THEN "Err"
    ELSE IF api.body_file /\ ~file_readable THEN "Err"
    ELSE "Ok"

\* A create_monitor_tasks that builds a load test with default parameters
\* for a load_test step that has none.
MonitorKindDefaulted(api) ==
    IF api.load_test THEN "LoadTest" ELSE "Task"

\* create_monitor_tasks (factory.rs:59-83): the kind of monitor built for an
\* api, None when load_test is set without a load_test_config.
MonitorKind(api) ==
    IF api.load_test
    THEN (IF api.has_load_test_config THEN "LoadTest" ELSE None)
    ELSE "Task"

Monitors(w) == {i \in ApiIds(w) : MonitorKind(Api(w, i)) # None}

\* A step without an order gets the smallest key (unwrap_or(0)).
get_task_order_or_zero(api) ==
    IF api.task_order = {} THEN 0 ELSE CHOOSE n \in api.task_order : TRUE

\* get_task_order (tasks.rs:118-120, loadtest.rs:115-117)
get_task_order(api) ==
    IF api.task_order = {} THEN UsizeMax ELSE CHOOSE n \in api.task_order : TRUE

\* grouped_tasks and the sorted order_keys (factory.rs:90-97)
Group(w, key) == {i \in Monitors(w) : get_task_order(Api(w, i)) = key}
KeySet(w) == {get_task_order(Api(w, i)) : i \in Monitors(w)}

RECURSIVE SortedKeys(_)
SortedKeys(S) ==
    IF S = {} THEN << >>
    ELSE LET m == CHOOSE x \in S : \A y \in S : x <= y
         IN  <<m>> \o SortedKeys(S \ {m})

order_keys(w) == SortedKeys(KeySet(w))
NumGroups(w) == Len(order_keys(w))
CurrentGroup(w) ==
    IF wf_pos[w] \in 1..NumGroups(w) THEN Group(w, order_keys(w)[wf_pos[w]]) ELSE {}

----------------------------------------------------------------------------
(* tasks.rs: the single-step monitor *)

\* What request_builder.send().await yields: an HTTP response with a status
\* code, or a transport error (reqwest::Error).
Responses == [kind : {"http"}, code : StatusCodes] \cup [kind : {"transport"}, code : {0}]

\* A success range that takes in 300.
is_success_to_300(code) == 200 <= code /\ code <= 300

\* StatusCode::is_success, as execute uses it (tasks.rs:66)
is_success(code) == 200 <= code /\ code <= 299

\* The three arms of Task::execute's match (tasks.rs:63-107): the
\* MonitoringData built and the Result returned.
TaskOutcome(api, resp, duration) ==
    LET base == [api_url |-> api.url, response_time |-> duration, method |-> api.method]
    IN  IF resp.kind = "http"
        THEN IF is_success(resp.code)
             THEN [resp |-> resp, ret |-> "Ok",
                   monitoring_data |-> base @@ [status |-> "OK", status_code |-> {resp.code}]]
             ELSE [resp |-> resp, ret |-> "Err",
                   monitoring_data |-> base @@ [status |-> "ERROR", status_code |-> {resp.code}]]
        ELSE [resp |-> resp, ret |-> "Err",
              monitoring_data |-> base @@ [status |-> "ERROR", status_code |-> {}]]

NoData == [resp |-> [kind |-> "none", code |-> 0], ret |-> "none", monitoring_data |-> {}]

\* LoadTestMonitoringData (loadtest.rs:35-61) as far as the orchestration sees
\* it: the campaign's metrics, here only its total_requests.
LtData(api, n) == [api_url |-> api.url, total_requests |-> n, method |-> api.method]

----------------------------------------------------------------------------
(* loadtest.rs: the retry loop of LoadTest::execute *)

\* The values of LoadTestConfig.retry_count (config.rs:19).
RetryCounts == {{}} \cup {{r} : r \in 0..MaxRetryCount}

\* The values a call of run_load_test can return by its type
\* Result<(), String> (loadtest.rs:134): the retry loop is checked against
\* every one of them.
CampaignResults == {"Ok", "Err:e1", "Err:e2"}
IsErr(r) == r # "Ok"

\* retry_count.unwrap_or(0) as usize (loadtest.rs:77)
max_attempts(rc) == IF rc = {} THEN 0 ELSE CHOOSE r \in rc : TRUE

\* A retry arm that also takes the last attempt.
RetryArmInclusive(a, m) == a <= m

\* `while attempt <= max_attempts` (loadtest.rs:79)
LoopGuard(a, m) == a <= m

\* `Err(e) if attempt < max_attempts` (loadtest.rs:82)
RetryArm(a, m) == a < m

\* execute is called (loadtest.rs:76-77).
RetryBegin ==
    /\ rt_pc = "start"
    /\ attempt' = 0
    /\ rt_pc' = "loop"
    /\ UNCHANGED <<retry_count, rt_log, rt_waits, rt_slept, rt_ret>>
    /\ UNCHANGED <<vars_store, vars_wf, vars_proc, vars_campaign, vars_agg>>

\* The loop's test, the call of run_load_test and the fall-through return
\* after the loop (loadtest.rs:79-80, 91).
RetryLoop ==
    /\ rt_pc = "loop"
    /\ IF LoopGuard(attempt, max_attempts(retry_count))
       THEN /\ rt_pc' = "running"
            /\ UNCHANGED rt_ret
       ELSE /\ rt_pc' = "returned"
            /\ rt_ret' = [kind |-> "Err", after |-> 0,
                          msg |-> "Maximum retry attempts reached"]
    /\ UNCHANGED <<retry_count, attempt, rt_log, rt_waits, rt_slept>>
    /\ UNCHANGED <<vars_store, vars_wf, vars_proc, vars_campaign, vars_agg>>

\* run_load_test returns and the match takes one of its arms
\* (loadtest.rs:80-88).
RetryMatch(res) ==
    /\ rt_pc = "running"
    /\ rt_log' = Append(rt_log, res)
    /\ IF ~IsErr(res)
       THEN /\ rt_pc' = "returned"
            /\ rt_ret' = [kind |-> "Ok", after |-> 0, msg |-> ""]
            /\ UNCHANGED <<attempt, rt_slept>>
       ELSE IF RetryArm(attempt, max_attempts(retry_count))
       THEN /\ attempt' = attempt + 1
            /\ rt_pc' = "sleep"
            /\ rt_slept' = 0
            /\ UNCHANGED rt_ret
       ELSE /\ rt_pc' = "returned"
            /\ rt_ret' = [kind |-> "Err", after |-> attempt + 1, msg |-> res]
            /\ UNCHANGED <<attempt, rt_slept>>
    /\ UNCHANGED <<retry_count, rt_waits>>
    /\ UNCHANGED <<vars_store, vars_wf, vars_proc, vars_campaign, vars_agg>>

\* One second of tokio::time::sleep(Duration::from_secs(5)) (loadtest.rs:85).
RetrySleep ==
    /\ rt_pc = "sleep"
    /\ rt_slept < BackoffSecs
    /\ rt_slept' = rt_slept + 1
    /\ UNCHANGED <<retry_count, rt_pc, attempt, rt_log, rt_waits, rt_ret>>
    /\ UNCHANGED <<vars_store, vars_wf, vars_proc, vars_campaign, vars_agg>>

\* The sleep is over: back to the loop's test (loadtest.rs:85-86, 79).
RetryWake ==
    /\ rt_pc = "sleep"
    /\ rt_slept = BackoffSecs
    /\ rt_waits' = Append(rt_waits, rt_slept)
    /\ rt_slept' = 0
    /\ rt_pc' = "loop"
    /\ UNCHANGED <<retry_count, attempt, rt_log, rt_ret>>
    /\ UNCHANGED <<vars_store, vars_wf, vars_proc, vars_campaign, vars_agg>>

\* run_load_test has returned to the match of execute (loadtest.rs:80-88).
ExecuteReturn(res) ==
    /\ lt_pc = "returned"
    /\ RetryMatch(res)

NoReturn == [kind |-> "none", after |-> 0, msg |-> ""]

\* No LoadTest::execute is in progress.
InitRetryIdle ==
    /\ retry_count = {}
    /\ rt_pc = "idle"
    /\ attempt = 0
    /\ rt_log = << >>
    /\ rt_waits = << >>
    /\ rt_slept = 0
    /\ rt_ret = NoReturn

----------------------------------------------------------------------------
(* loadtest.rs: one campaign, LoadTest::run_load_test *)

Opt(n) == {{}} \cup {{v} : v \in 0..n}
unwrap_or(o, d) == IF o = {} THEN d ELSE CHOOSE v \in o : TRUE

\* LoadTestConfig (config.rs:15-21) as far as the campaign reads it.
LoadTestConfigs ==
    [initial_load : Opt(MaxInitialLoad), max_load : Opt(MaxMaxLoad),
     spawn_rate : Opt(MaxSpawnRate), max_duration_secs : Opt(MaxDurationSecs)]

NoConfig == [initial_load |-> {}, max_load |-> {}, spawn_rate |-> {},
             max_duration_secs |-> {}]

\* loadtest.rs:142-146, 153, 155
max_duration(cfg) == unwrap_or(cfg.max_duration_secs, DefaultMaxDurationSecs)
max_load(cfg) == unwrap_or(cfg.max_load, UsizeMax)
spawn_rate(cfg) == unwrap_or(cfg.spawn_rate, DefaultSpawnRate)

Min(a, b) == IF a <= b THEN a ELSE b
Max(a, b) == IF a >= b THEN a ELSE b

\* A tick that always adds spawn_rate users.
new_users_unclamped(cfg, load) == spawn_rate(cfg)

\* loadtest.rs:167-171
new_users(cfg, load) ==
    IF load >= max_load(cfg) THEN 0 ELSE Min(spawn_rate(cfg), max_load(cfg) - load)

\* The workers of one tick: at most spawn_rate of them.
WorkerIds == 1..MaxSpawnRate
NoWorkers == [i \in WorkerIds |-> "none"]
InFlight == {i \in WorkerIds : worker[i] = "inflight"}

\* What a worker's task returns (loadtest.rs:198-224): Ok with the status of
\* the response, a 2xx or another one, or Err for a request that could not
\* be built or sent.
Responded == {"2xx", "non2xx"}
Outcomes == Responded \cup {"err"}

\* The api the campaign runs for: the load-test step of W1.
LtApi == Api(1, 3)

\* run_load_test is called (loadtest.rs:136-158).
CampaignStart ==
    /\ lt_pc = "start"
    /\ current_load' = unwrap_or(lt_cfg.initial_load, 0)
    /\ elapsed' = 0
    /\ lt_pc' = "loop"
    /\ UNCHANGED <<lt_cfg, ticks, permits, worker, all_results>>
    /\ UNCHANGED <<vars_store, vars_wf, vars_proc, vars_retry, vars_agg>>

\* Time passes while the campaign awaits; past max_duration it is not told
\* apart any more.
TimePasses ==
    /\ lt_pc \in {"loop", "tick", "join"}
    /\ elapsed < max_duration(lt_cfg)
    /\ elapsed' = elapsed + 1
    /\ UNCHANGED <<lt_cfg, lt_pc, current_load, ticks, permits, worker, all_results>>
    /\ UNCHANGED <<vars_store, vars_wf, vars_proc, vars_retry, vars_agg>>

\* A loop that tests its condition after the tick (do-while): a campaign
\* that has made no tick makes one.
CampaignLoopTickFirst ==
    /\ lt_pc = "loop"
    /\ lt_pc' = IF \/ ticks = 0
                   \/ current_load < max_load(lt_cfg) /\ elapsed < max_duration(lt_cfg)
                THEN "tick" ELSE "analyze"
    /\ UNCHANGED <<lt_cfg, current_load, elapsed, ticks, permits, worker, all_results>>
    /\ UNCHANGED <<vars_store, vars_wf, vars_proc, vars_retry, vars_agg>>

\* `while current_load < max_load && start_time.elapsed() < max_duration`
\* (loadtest.rs:161)
CampaignLoop ==
    /\ lt_pc = "loop"
    /\ lt_pc' = IF current_load < max_load(lt_cfg) /\ elapsed < max_duration(lt_cfg)
                THEN "tick" ELSE "analyze"
    /\ UNCHANGED <<lt_cfg, current_load, elapsed, ticks, permits, worker, all_results>>
    /\ UNCHANGED <<vars_store, vars_wf, vars_proc, vars_retry, vars_agg>>

\* A tick that spawns spawn_rate workers behind as many permits and clamps
\* the load afterwards.
CampaignTickUnclamped ==
    /\ lt_pc = "tick"
    /\ elapsed' = Min(Max(elapsed, ticks), max_duration(lt_cfg))
    /\ current_load' = Min(current_load + spawn_rate(lt_cfg), max_load(lt_cfg))
    /\ permits' = spawn_rate(lt_cfg)
    /\ worker' = [i \in WorkerIds |-> IF i <= spawn_rate(lt_cfg) THEN "waiting" ELSE "none"]
    /\ ticks' = ticks + 1
    /\ lt_pc' = "join"
    /\ UNCHANGED <<lt_cfg, all_results>>
    /\ UNCHANGED <<vars_store, vars_wf, vars_proc, vars_retry, vars_agg>>

\* A tick whose semaphore has initial_load permits.
CampaignTickPermitsInitial ==
    /\ lt_pc = "tick"
    /\ elapsed' = Min(Max(elapsed, ticks), max_duration(lt_cfg))
    /\ LET n == new_users(lt_cfg, current_load)
       IN  /\ current_load' = current_load + n
           /\ permits' = unwrap_or(lt_cfg.initial_load, 0)
           /\ worker' = [i \in WorkerIds |-> IF i <= n THEN "waiting" ELSE "none"]
    /\ ticks' = ticks + 1
    /\ lt_pc' = "join"
    /\ UNCHANGED <<lt_cfg, all_results>>
    /\ UNCHANGED <<vars_store, vars_wf, vars_proc, vars_retry, vars_agg>>

\* A tick that spawns a worker for every user of the load, not only for the
\* new ones.
CampaignTickSpawnsAll ==
    /\ lt_pc = "tick"
    /\ elapsed' = Min(Max(elapsed, ticks), max_duration(lt_cfg))
    /\ LET n == new_users(lt_cfg, current_load)
       IN  /\ current_load' = current_load + n
           /\ permits' = current_load + n
           /\ worker' = [i \in WorkerIds |-> IF i <= current_load + n THEN "waiting" ELSE "none"]
    /\ ticks' = ticks + 1
    /\ lt_pc' = "join"
    /\ UNCHANGED <<lt_cfg, all_results>>
    /\ UNCHANGED <<vars_store, vars_wf, vars_proc, vars_retry, vars_agg>>

\* One tick up to the spawning of its workers (loadtest.rs:163-226). The
\* interval's first tick is immediate, its k-th comes k-1 seconds after the
\* start at the earliest.
CampaignTick ==
    /\ lt_pc = "tick"
    /\ elapsed' = Min(Max(elapsed, ticks), max_duration(lt_cfg))
    /\ LET n == new_users(lt_cfg, current_load)
       IN  /\ current_load' = current_load + n
           /\ permits' = current_load + n
           /\ worker' = [i \in WorkerIds |-> IF i <= n THEN "waiting" ELSE "none"]
    /\ ticks' = ticks + 1
    /\ lt_pc' = "join"
    /\ UNCHANGED <<lt_cfg, all_results>>
    /\ UNCHANGED <<vars_store, vars_wf, vars_proc, vars_retry, vars_agg>>

\* acquire_owned().await returns with a permit (loadtest.rs:192).
WorkerAcquire(i) ==
    /\ lt_pc = "join"
    /\ worker[i] = "waiting"
    /\ permits > 0
    /\ permits' = permits - 1
    /\ worker' = [worker EXCEPT ![i] = "inflight"]
    /\ UNCHANGED <<lt_cfg, lt_pc, current_load, elapsed, ticks, all_results>>
    /\ UNCHANGED <<vars_store, vars_wf, vars_proc, vars_retry, vars_agg>>

\* The worker's request ends, with a response or with an error, and its
\* permit is dropped (loadtest.rs:197-224).
WorkerFinish(i, out) ==
    /\ lt_pc = "join"
    /\ worker[i] = "inflight"
    /\ permits' = permits + 1
    /\ worker' = [worker EXCEPT ![i] = out]
    /\ UNCHANGED <<lt_cfg, lt_pc, current_load, elapsed, ticks, all_results>>
    /\ UNCHANGED <<vars_store, vars_wf, vars_proc, vars_retry, vars_agg>>

\* The worker's task panics: its JoinHandle yields a JoinError, and the
\* unwinding drops its permit (loadtest.rs:190-225).
WorkerPanic(i) ==
    /\ lt_pc = "join"
    /\ worker[i] = "inflight"
    /\ permits' = permits + 1
    /\ worker' = [worker EXCEPT ![i] = "panicked"]
    /\ UNCHANGED <<lt_cfg, lt_pc, current_load, elapsed, ticks, all_results>>
    /\ UNCHANGED <<vars_store, vars_wf, vars_proc, vars_retry, vars_agg>>

\* The entry of step_results for a worker (loadtest.rs:230-235): the value
\* its task returned, or Err("Task panicked") for a JoinError.
step_result(w) == IF w = "panicked" THEN "err" ELSE w

\* A join that unwraps the JoinHandles: the results of a tick in which a
\* worker panicked are lost.
StepResultsUnwrapped ==
    IF \E i \in WorkerIds : worker[i] = "panicked"
    THEN [o \in Outcomes |-> 0]
    ELSE [o \in Outcomes |-> Cardinality({i \in WorkerIds : worker[i] = o})]

\* step_results (loadtest.rs:229-235), counted by outcome
StepResults ==
    [o \in Outcomes |->
        Cardinality({i \in WorkerIds : worker[i] # "none" /\ step_result(worker[i]) = o})]

\* A join that goes on as soon as one worker of the tick is done.
CampaignJoinFirstDone ==
    /\ lt_pc = "join"
    /\ \/ \A i \in WorkerIds : worker[i] \in {"none", "panicked"} \cup Outcomes
       \/ \E i \in WorkerIds : worker[i] \in {"panicked"} \cup Outcomes
    /\ all_results' = [o \in Outcomes |-> all_results[o] + StepResults[o]]
    /\ worker' = NoWorkers
    /\ permits' = 0
    /\ lt_pc' = IF elapsed >= max_duration(lt_cfg) THEN "analyze" ELSE "loop"
    /\ UNCHANGED <<lt_cfg, current_load, elapsed, ticks>>
    /\ UNCHANGED <<vars_store, vars_wf, vars_proc, vars_retry, vars_agg>>

\* A join that gives up at the end of the budget (a timeout around
\* join_all): the workers still waiting or in flight are dropped.
CampaignJoinAbortsAtBudget ==
    /\ lt_pc = "join"
    /\ \/ \A i \in WorkerIds : worker[i] \in {"none", "panicked"} \cup Outcomes
       \/ elapsed >= max_duration(lt_cfg)
    /\ all_results' =
          [o \in Outcomes |-> all_results[o] + Cardinality({i \in WorkerIds : worker[i] = o})]
    /\ worker' = NoWorkers
    /\ permits' = 0
    /\ lt_pc' = IF elapsed >= max_duration(lt_cfg) THEN "analyze" ELSE "loop"
    /\ UNCHANGED <<lt_cfg, current_load, elapsed, ticks>>
    /\ UNCHANGED <<vars_store, vars_wf, vars_proc, vars_retry, vars_agg>>

\* join_all returns, the tick's results are appended and the duration is
\* tested (loadtest.rs:229-242).
CampaignJoin ==
    /\ lt_pc = "join"
    /\ \A i \in WorkerIds : worker[i] \in {"none", "panicked"} \cup Outcomes
    /\ all_results' = [o \in Outcomes |-> all_results[o] + StepResults[o]]
    /\ worker' = NoWorkers
    /\ permits' = 0
    /\ lt_pc' = IF elapsed >= max_duration(lt_cfg) THEN "analyze" ELSE "loop"
    /\ UNCHANGED <<lt_cfg, current_load, elapsed, ticks>>
    /\ UNCHANGED <<vars_store, vars_wf, vars_proc, vars_retry, vars_agg>>

\* The results are filtered and analysed, the metrics written and Ok
\* returned (loadtest.rs:246-289).
CampaignWrite ==
    /\ lt_pc = "analyze"
    /\ load_test_monitoring_data' =
          Upsert(load_test_monitoring_data, Workflows[1].name, LtApi.name,
                 LtData(LtApi, all_results["2xx"] + all_results["non2xx"]))
    /\ lt_pc' = "returned"
    /\ UNCHANGED <<lt_cfg, current_load, elapsed, ticks, permits, worker, all_results>>
    /\ UNCHANGED <<monitoring_started, state_lock, task_lock, lt_lock, task_monitoring_data,
                   vars_wf, vars_proc, vars_retry, vars_agg>>

\* A run_load_test that fails when a worker did.
run_load_test_strict ==
    IF all_results["err"] + all_results["non2xx"] > 0 THEN "Err:e1" ELSE "Ok"

\* What run_load_test returns: its only return is the Ok(()) after the
\* update of the store (loadtest.rs:289).
\* A run_load_test that hands a failed or panicked worker on to its caller.
run_load_test_worker_fails ==
    IF all_results["err"] > 0 THEN "Err:e1" ELSE "Ok"

run_load_test_result == "Ok"

\* execute calls run_load_test (loadtest.rs:80).
ExecuteCall ==
    /\ rt_pc = "running"
    /\ lt_pc = "idle"
    /\ lt_pc' = "start"
    /\ UNCHANGED <<lt_cfg, current_load, elapsed, ticks, permits, worker, all_results>>
    /\ UNCHANGED <<vars_store, vars_wf, vars_proc, vars_retry, vars_agg>>

\* No run_load_test is in progress.
InitCampaignIdle ==
    /\ lt_cfg = NoConfig
    /\ lt_pc = "idle"
    /\ current_load = 0
    /\ elapsed = 0
    /\ ticks = 0
    /\ permits = 0
    /\ worker = NoWorkers
    /\ all_results = [o \in Outcomes |-> 0]

----------------------------------------------------------------------------
(* loadtest.rs: the end of run_load_test, the filter and analyze_results *)

\* The entries of all_results (loadtest.rs:198-237): Ok((status, duration,
\* bytes)) of a worker that got a response, Err of one that did not.
LtStatusCodes == {200, 500}
ResponseSizes == {0, 1}
OkResults ==
    [kind : {"Ok"}, status : LtStatusCodes, duration_ms : 0..MaxResponseMs,
     bytes : ResponseSizes]
ErrResult == [kind |-> "Err", status |-> 0, duration_ms |-> 0, bytes |-> 0]
WorkerResults == OkResults \cup {ErrResult}

\* The sequences over S of a length up to n
RECURSIVE SeqsUpTo(_, _)
SeqsUpTo(S, n) ==
    IF n = 0 THEN {<< >>}
    ELSE LET shorter == SeqsUpTo(S, n - 1)
         IN  shorter \cup {Append(q, x) : q \in {r \in shorter : Len(r) = n - 1}, x \in S}

\* A filter that keeps every entry.
FilterKeepsAll(rs) == rs

\* filter_map over all_results (loadtest.rs:250-255)
RECURSIVE FilterOk(_)
FilterOk(rs) ==
    IF rs = << >> THEN << >>
    ELSE IF Head(rs).kind = "Ok"
         THEN <<Head(rs)>> \o FilterOk(Tail(rs))
         ELSE FilterOk(Tail(rs))

\* The accumulators of analyze_results before its loop (loadtest.rs:320-327)
InitialAcc ==
    [success_count |-> 0, failure_count |-> 0, total_duration |-> 0,
     total_bytes |-> 0, response_times_ms |-> << >>,
     min_response_time_ms |-> U128Max, max_response_time_ms |-> 0,
     status_code_distribution |-> EmptyMap]

\* One turn of the loop of analyze_results (loadtest.rs:329-344)
LoopBody(acc, r) ==
    [success_count |-> acc.success_count + (IF is_success(r.status) THEN 1 ELSE 0),
     failure_count |-> acc.failure_count + (IF is_success(r.status) THEN 0 ELSE 1),
     total_duration |-> acc.total_duration + r.duration_ms,
     total_bytes |-> acc.total_bytes + r.bytes,
     response_times_ms |-> Append(acc.response_times_ms, r.duration_ms),
     min_response_time_ms |-> Min(acc.min_response_time_ms, r.duration_ms),
     max_response_time_ms |-> Max(acc.max_response_time_ms, r.duration_ms),
     status_code_distribution |->
        IF r.status \in DOMAIN acc.status_code_distribution
        THEN [acc.status_code_distribution EXCEPT ![r.status] = @ + 1]
        ELSE acc.status_code_distribution @@ (r.status :> 1)]

RECURSIVE Accumulate(_, _)
Accumulate(acc, rs) ==
    IF rs = << >> THEN acc ELSE Accumulate(LoopBody(acc, Head(rs)), Tail(rs))

\* An index that truncates 0.95 * len instead of rounding it up.
percentile_95th_index_truncated(len) ==
    IF len = 0 THEN 1 ELSE Max((95 * len) \div 100 - 1, 0) + 1

\* ((0.95 * len as f64).ceil() as usize).saturating_sub(1), as an index from
\* 1 (loadtest.rs:354-358). The f64 nearest to 0.95 is below 0.95 by less
\* than 1e-16 and 0.95 * len is a multiple of 0.05, so for every length a
\* list can have the f64 product rounds up to the same integer as 19 * len / 20.
percentile_95th_index(len) ==
    IF len = 0 THEN 1 ELSE Max((95 * len + 99) \div 100 - 1, 0) + 1

\* A median that takes the left of the two middle values' sum for their mean.
\* A median that takes the upper of the two middle values of an even-length
\* list.
MedianUpperMiddle(sorted) ==
    IF sorted = << >> THEN 0 ELSE sorted[Len(sorted) \div 2 + 1]

MedianNotHalved(sorted) ==
    IF sorted = << >> THEN 0
    ELSE IF Len(sorted) % 2 = 0
         THEN sorted[Len(sorted) \div 2] + sorted[Len(sorted) \div 2 + 1]
         ELSE sorted[Len(sorted) \div 2 + 1]

\* The median of the sorted response times (loadtest.rs:362-370)
Median(sorted) ==
    IF sorted = << >> THEN 0
    ELSE IF Len(sorted) % 2 = 0
         THEN (sorted[Len(sorted) \div 2] + sorted[Len(sorted) \div 2 + 1]) \div 2
         ELSE sorted[Len(sorted) \div 2 + 1]

\* analyze_results (loadtest.rs:319-399). requests_per_second, an f64, is
\* kept as the exact quotient <<numerator, denominator>>.
analyze_results(results) ==
    LET acc == Accumulate(InitialAcc, results)
        n == Len(results)
        sorted == SortSeq(acc.response_times_ms, LAMBDA a, b : a < b)
        p95 == percentile_95th_index(n)
    IN  [success_count |-> acc.success_count,
         failure_count |-> acc.failure_count,
         median_response_time_ms |-> Median(sorted),
         average_response_time_ms |-> IF n # 0 THEN acc.total_duration \div n ELSE 0,
         min_response_time_ms |-> acc.min_response_time_ms,
         max_response_time_ms |-> acc.max_response_time_ms,
         status_code_distribution |-> acc.status_code_distribution,
         percentile_95th_response_time_ms |->
            IF p95 \in DOMAIN sorted THEN sorted[p95] ELSE 0,
         requests_per_second |->
            IF acc.total_duration > 0 THEN <<n * 1000, acc.total_duration>> ELSE <<0, 1>>,
         average_bytes_per_response |-> IF n # 0 THEN acc.total_bytes \div n ELSE 0]

\* LoadTestMonitoringData as run_load_test builds it (loadtest.rs:270-284)
LoadTestMonitoringData(api, filtered, m) ==
    [api_url |-> api.url, total_requests |-> Len(filtered), method |-> api.method] @@ m

\* The campaign's loop is over (loadtest.rs:246-255): the filter.
AggFilter ==
    /\ ag_pc = "filter"
    /\ filtered_results' = FilterOk(ag_all_results)
    /\ ag_pc' = "analyze"
    /\ UNCHANGED <<ag_all_results, ag_metrics>>
    /\ UNCHANGED <<vars_store, vars_wf, vars_proc, vars_retry, vars_campaign>>

\* The call of analyze_results (loadtest.rs:258-267)
AggAnalyze ==
    /\ ag_pc = "analyze"
    /\ ag_metrics' = {analyze_results(filtered_results)}
    /\ ag_pc' = "write"
    /\ UNCHANGED <<ag_all_results, filtered_results>>
    /\ UNCHANGED <<vars_store, vars_wf, vars_proc, vars_retry, vars_campaign>>

\* The metrics are built and written to the store (loadtest.rs:270-287).
AggWrite ==
    /\ ag_pc = "write"
    /\ \E m \in ag_metrics :
          load_test_monitoring_data' =
             Upsert(load_test_monitoring_data, Workflows[1].name, LtApi.name,
                    LoadTestMonitoringData(LtApi, filtered_results, m))
    /\ ag_pc' = "returned"
    /\ UNCHANGED <<ag_all_results, filtered_results, ag_metrics>>
    /\ UNCHANGED <<monitoring_started, state_lock, task_lock, lt_lock, task_monitoring_data,
                   vars_wf, vars_proc, vars_retry, vars_campaign>>

\* The outcome an entry of all_results is counted under
Class(r) ==
    IF r.kind = "Err" THEN "err" ELSE IF is_success(r.status) THEN "2xx" ELSE "non2xx"
CountOf(q, o) == Cardinality({i \in DOMAIN q : Class(q[i]) = o})

\* The campaign's loop is over (loadtest.rs:243-247): all_results is any list
\* of entries with the outcomes the workers had, of MaxResults entries at
\* most.
CampaignCollect ==
    /\ lt_pc = "analyze"
    /\ ag_pc = "idle"
    /\ all_results["2xx"] + all_results["non2xx"] + all_results["err"] <= MaxResults
    /\ \E q \in SeqsUpTo(WorkerResults, MaxResults) :
          /\ \A o \in Outcomes : CountOf(q, o) = all_results[o]
          /\ ag_all_results' = q
    /\ ag_pc' = "filter"
    /\ UNCHANGED <<filtered_results, ag_metrics>>
    /\ UNCHANGED <<vars_store, vars_wf, vars_proc, vars_retry, vars_campaign>>

\* run_load_test returns Ok(()) after the write (loadtest.rs:287-289).
CampaignReturn ==
    /\ lt_pc = "analyze"
    /\ ag_pc = "returned"
    /\ lt_pc' = "returned"
    /\ UNCHANGED <<lt_cfg, current_load, elapsed, ticks, permits, worker, all_results>>
    /\ UNCHANGED <<vars_store, vars_wf, vars_proc, vars_retry, vars_agg>>

\* No campaign is at its end.
InitAggIdle ==
    /\ ag_pc = "idle"
    /\ ag_all_results = << >>
    /\ filtered_results = << >>
    /\ ag_metrics = {}

----------------------------------------------------------------------------
(* One call of start_monitoring *)

IsTask(t) == MonitorKind(Api(t[1], t[2])) = "Task"
IsLoadTest(t) == MonitorKind(Api(t[1], t[2])) = "LoadTest"
WfName(t) == Workflows[t[1]].name
TaskName(t) == Api(t[1], t[2]).name

\* start_monitoring (factory.rs:120-138) builds the client and one future per
\* workflow, and awaits them all.
StartMonitoring ==
    /\ sm_pc = "spawned"
    /\ sm_pc' = "running"
    /\ UNCHANGED <<sm_wfs, wf_pos, task_pc, task_result, task_data,
                   exec_count, send_count, write_count, vars_store, vars_proc, vars_lt>>

\* A join that is over as soon as one future of the group is (a select).
GroupJoinedAny(w) ==
    CurrentGroup(w) = {} \/ \E i \in CurrentGroup(w) : task_pc[<<w, i>>] = "done"

\* join_all(futures).await of the current group (factory.rs:112)
GroupJoined(w) == \A i \in CurrentGroup(w) : task_pc[<<w, i>>] = "done"

\* A loop that a failed task ends (the error propagated with `?`).
NextPosAbortOnErr(w) ==
    IF \E i \in CurrentGroup(w) : task_result[<<w, i>>] = "Err"
    THEN NumGroups(w) + 1
    ELSE wf_pos[w] + 1

\* The loop over order_keys (factory.rs:99-114): the next group, whatever the
\* results of this one (an Err is logged, factory.rs:107).
NextPos(w) == wf_pos[w] + 1

\* monitor_single_workflow (factory.rs:86-115): enter the next order group and
\* create the futures of its tasks.
WorkflowAdvance(w) ==
    /\ sm_pc = "running"
    /\ w \in sm_wfs
    /\ wf_pos[w] <= NumGroups(w)
    /\ GroupJoined(w)
    /\ wf_pos' = [wf_pos EXCEPT ![w] = NextPos(w)]
    /\ task_pc' = [t \in AllTasks |->
                      IF /\ t[1] = w
                         /\ NextPos(w) \in 1..NumGroups(w)
                         /\ t[2] \in Group(w, order_keys(w)[NextPos(w)])
                      THEN "ready" ELSE task_pc[t]]
    /\ UNCHANGED <<sm_pc, sm_wfs, task_result, task_data,
                   exec_count, send_count, write_count, vars_store, vars_proc, vars_lt>>

\* Task::execute up to send().await (tasks.rs:43-58): a construction error
\* returns at once through `?`.
TaskStart(t) ==
    /\ IsTask(t)
    /\ task_pc[t] = "ready"
    /\ exec_count' = [exec_count EXCEPT ![t] = @ + 1]
    /\ \E file_readable \in BOOLEAN :
          IF create_request_builder(Api(t[1], t[2]), file_readable) = "Err"
          THEN /\ task_pc' = [task_pc EXCEPT ![t] = "done"]
               /\ task_result' = [task_result EXCEPT ![t] = "Err"]
               /\ UNCHANGED send_count
          ELSE /\ task_pc' = [task_pc EXCEPT ![t] = "sent"]
               /\ send_count' = [send_count EXCEPT ![t] = @ + 1]
               /\ UNCHANGED task_result
    /\ UNCHANGED <<sm_pc, sm_wfs, wf_pos, task_data, write_count, vars_store, vars_proc, vars_lt>>

\* The response arrives and the MonitoringData is built (tasks.rs:60-104).
TaskRespond(t) ==
    /\ IsTask(t)
    /\ task_pc[t] = "sent"
    /\ \E resp \in Responses, duration \in 0..MaxDurationMs :
          task_data' = [task_data EXCEPT ![t] = TaskOutcome(Api(t[1], t[2]), resp, duration)]
    /\ task_pc' = [task_pc EXCEPT ![t] = "updating"]
    /\ UNCHANGED <<sm_pc, sm_wfs, wf_pos, task_result, exec_count, send_count,
                   write_count, vars_store, vars_proc, vars_lt>>

\* update_app_state (tasks.rs:124-152) as a whole, both locks taken and
\* released, and execute's return.
TaskUpdate(t) ==
    /\ IsTask(t)
    /\ task_pc[t] = "updating"
    /\ state_lock = NoOne /\ task_lock = NoOne
    /\ task_monitoring_data' =
          Upsert(task_monitoring_data, WfName(t), TaskName(t), task_data[t].monitoring_data)
    /\ write_count' = [write_count EXCEPT ![t] = @ + 1]
    /\ task_result' = [task_result EXCEPT ![t] = task_data[t].ret]
    /\ task_pc' = [task_pc EXCEPT ![t] = "done"]
    /\ UNCHANGED <<sm_pc, sm_wfs, wf_pos, task_data, exec_count, send_count,
                   monitoring_started, state_lock, task_lock, lt_lock,
                   load_test_monitoring_data, vars_proc, vars_lt>>

\* LoadTest::execute (loadtest.rs:75-92) calls run_load_test.
LtStart(t) ==
    /\ IsLoadTest(t)
    /\ task_pc[t] = "ready"
    /\ exec_count' = [exec_count EXCEPT ![t] = @ + 1]
    /\ task_pc' = [task_pc EXCEPT ![t] = "campaign"]
    /\ UNCHANGED <<sm_pc, sm_wfs, wf_pos, task_result, task_data, send_count,
                   write_count, vars_store, vars_proc, vars_lt>>

\* run_load_test ends (loadtest.rs:245-289): it writes the campaign's metrics
\* through update_load_test_app_state and returns Ok(()), which execute returns.
LtFinish(t) ==
    /\ IsLoadTest(t)
    /\ task_pc[t] = "campaign"
    /\ state_lock = NoOne /\ lt_lock = NoOne
    /\ \E n \in 0..MaxLtRequests :
          load_test_monitoring_data' =
              Upsert(load_test_monitoring_data, WfName(t), TaskName(t),
                     LtData(Api(t[1], t[2]), n))
    /\ write_count' = [write_count EXCEPT ![t] = @ + 1]
    /\ task_result' = [task_result EXCEPT ![t] = "Ok"]
    /\ task_pc' = [task_pc EXCEPT ![t] = "done"]
    /\ UNCHANGED <<sm_pc, sm_wfs, wf_pos, task_data, exec_count, send_count,
                   monitoring_started, state_lock, task_lock, lt_lock,
                   task_monitoring_data, vars_proc, vars_lt>>

WorkflowDone(w) == wf_pos[w] = NumGroups(w) + 1

\* A join that is over as soon as one workflow's future is (a select).
SessionReturnFirst ==
    /\ sm_pc = "running"
    /\ \E w \in sm_wfs : WorkflowDone(w)
    /\ sm_pc' = "returned"
    /\ UNCHANGED <<sm_wfs, wf_pos, task_pc, task_result, task_data,
                   exec_count, send_count, write_count, vars_store, vars_proc, vars_lt>>

\* join_all over the workflows' futures (factory.rs:137): start_monitoring
\* returns.
SessionReturn ==
    /\ sm_pc = "running"
    /\ \A w \in sm_wfs : WorkflowDone(w)
    /\ sm_pc' = "returned"
    /\ UNCHANGED <<sm_wfs, wf_pos, task_pc, task_result, task_data,
                   exec_count, send_count, write_count, vars_store, vars_proc, vars_lt>>

InitStore ==
    /\ monitoring_started = FALSE
    /\ state_lock = NoOne
    /\ task_lock = NoOne
    /\ lt_lock = NoOne
    /\ task_monitoring_data = EmptyMap
    /\ load_test_monitoring_data = EmptyMap

InitProc ==
    /\ hpc = [h \in Handlers |-> "idle"]
    /\ hreq = [h \in Handlers |-> NoRequest]
    /\ hsnap = [h \in Handlers |-> EmptyMap]
    /\ hexpect = [h \in Handlers |-> NoWrites]
    /\ hresp = [h \in Handlers |-> "none"]
    /\ sess = [s \in SessionIds |-> NoSession]
    /\ wr = [p \in Writers |-> IdleWriter]
    /\ last_write = [task |-> NoWrites, lt |-> NoWrites]
    /\ spawned_since_reset = 0

InitTasks ==
    /\ wf_pos = [w \in WfIds |-> 0]
    /\ task_pc = [t \in AllTasks |-> "pending"]
    /\ task_result = [t \in AllTasks |-> "none"]
    /\ task_data = [t \in AllTasks |-> NoData]
    /\ exec_count = [t \in AllTasks |-> 0]
    /\ send_count = [t \in AllTasks |-> 0]
    /\ write_count = [t \in AllTasks |-> 0]

\* A trigger handler has spawned start_monitoring with all the workflows
\* (main.rs:194-196) or with those a webhook named (main.rs:152-169).
InitWorkflow ==
    /\ InitRetryIdle /\ InitCampaignIdle /\ InitAggIdle
    /\ InitStore
    /\ sm_pc = "spawned"
    /\ sm_wfs \in (SUBSET WfIds) \ {{}}
    /\ InitTasks
    /\ InitProc

NextWorkflow ==
    \/ StartMonitoring
    \/ SessionReturn
    \/ \E w \in WfIds : WorkflowAdvance(w)
    \/ \E t \in AllTasks : TaskStart(t)
    \/ \E t \in AllTasks : TaskRespond(t)
    \/ \E t \in AllTasks : TaskUpdate(t)
    \/ \E t \in AllTasks : LtStart(t)
    \/ \E t \in AllTasks : LtFinish(t)

SpecWorkflow == InitWorkflow /\ [][NextWorkflow]_vars

\* The runtime polls a future whose join_all is complete: start_monitoring
\* returns (factory.rs:137).
FairWorkflow == WF_vars(SessionReturn)

SpecWorkflowFair == InitWorkflow /\ [][NextWorkflow]_vars /\ FairWorkflow

----------------------------------------------------------------------------
(* main.rs: the handlers, the sessions and the writers of the store *)

\* A lock that never makes its caller wait.
LockNeverWaits(lock) == TRUE

\* tokio::sync::Mutex::lock().await returns once the mutex is free.
LockFree(lock) == lock = NoOne

\* WebhookPayload.workflow_names (main.rs:137-139): the lists a webhook sends
Payloads == {{"W1", "Wx"}, {"Wx"}}

\* The filter of trigger_monitoring_via_webhook (main.rs:155-160)
filtered_workflows(names) == {w \in WfIds : Workflows[w].name \in names}

FreeSlots == {s \in SessionIds : sess[s].st = "none"}
Live(s) == sess[s].st \in {"created", "spawned", "running"}

\* Requests are served by the first handler at rest, calls of an update are
\* numbered by the first writer at rest.
FirstIdleHandler(h) == hpc[h] = "idle" /\ \A g \in 1..(h - 1) : hpc[g] # "idle"
FirstIdleWriter(p) == wr[p].pc = "idle" /\ \A q \in 1..(p - 1) : wr[q].pc # "idle"

\* A GET or a POST of /trigger_workflow arrives.
TriggerArrive(h) ==
    /\ FirstIdleHandler(h)
    /\ \E req \in {[route |-> "trigger", workflow_names |-> {}]} \cup
                  [route : {"webhook"}, workflow_names : Payloads] :
          hreq' = [hreq EXCEPT ![h] = req]
    /\ hpc' = [hpc EXCEPT ![h] = "t_wait"]
    /\ hresp' = [hresp EXCEPT ![h] = "none"]
    /\ UNCHANGED <<hsnap, hexpect, sess, wr, last_write, spawned_since_reset, vars_store, vars_wf, vars_lt>>

\* trigger_monitoring (main.rs:185-196) and trigger_monitoring_via_webhook
\* (main.rs:148-169) from the lock of AppState to tokio::spawn: the early
\* returns drop the guard at once. The task tokio::spawn creates is queued on
\* the worker's single-threaded runtime (#[actix_web::main], main.rs:23): it
\* is "created" until the handler's future returns, which is the first time
\* the runtime can poll another task.
TriggerCheck(h) ==
    /\ hpc[h] = "t_wait"
    /\ LockFree(state_lock)
    /\ LET wfs == IF hreq[h].route = "webhook"
                  THEN filtered_workflows(hreq[h].workflow_names)
                  ELSE WfIds
       IN  IF monitoring_started
           THEN /\ hresp' = [hresp EXCEPT ![h] = "Monitoring is already running."]
                /\ hpc' = [hpc EXCEPT ![h] = "idle"]
                /\ UNCHANGED <<sess, state_lock, spawned_since_reset>>
           ELSE IF wfs = {}
           THEN /\ hresp' = [hresp EXCEPT ![h] = "No matching workflows found."]
                /\ hpc' = [hpc EXCEPT ![h] = "idle"]
                /\ UNCHANGED <<sess, state_lock, spawned_since_reset>>
           ELSE /\ FreeSlots # {}
                /\ LET s == CHOOSE x \in FreeSlots : \A y \in FreeSlots : x <= y
                   IN  sess' = [sess EXCEPT ![s] = [st |-> "created", wfs |-> wfs]]
                /\ state_lock' = H(h)
                /\ spawned_since_reset' = spawned_since_reset + 1
                /\ hpc' = [hpc EXCEPT ![h] = "t_set"]
                /\ UNCHANGED hresp
    /\ UNCHANGED <<hreq, hsnap, hexpect, wr, last_write, monitoring_started,
                   task_lock, lt_lock, task_monitoring_data,
                   load_test_monitoring_data, vars_wf, vars_lt>>

\* state.monitoring_started = true and the return, which drops the guard
\* (main.rs:171-176, 198-204) and lets the runtime poll the spawned task.
TriggerSet(h) ==
    /\ hpc[h] = "t_set"
    /\ monitoring_started' = TRUE
    /\ state_lock' = NoOne
    /\ hresp' = [hresp EXCEPT ![h] = IF hreq[h].route = "webhook"
                                     THEN "Monitoring triggered for specified workflows."
                                     ELSE "Monitoring started."]
    /\ hpc' = [hpc EXCEPT ![h] = "idle"]
    /\ sess' = [s \in SessionIds |-> IF sess[s].st = "created"
                                      THEN [sess[s] EXCEPT !.st = "spawned"]
                                      ELSE sess[s]]
    /\ UNCHANGED <<hreq, hsnap, hexpect, wr, last_write, spawned_since_reset, task_lock, lt_lock,
                   task_monitoring_data, load_test_monitoring_data, vars_wf, vars_lt>>

\* A spawned task that a second thread starts to run at once.
SessionBeginAtOnce(s) ==
    /\ sess[s].st \in {"created", "spawned"}
    /\ sess' = [sess EXCEPT ![s].st = "running"]
    /\ UNCHANGED <<hpc, hreq, hsnap, hexpect, hresp, wr, last_write, spawned_since_reset, vars_store, vars_wf, vars_lt>>

\* The spawned task starts to run start_monitoring (factory.rs:120-134).
SessionBegin(s) ==
    /\ sess[s].st = "spawned"
    /\ sess' = [sess EXCEPT ![s].st = "running"]
    /\ UNCHANGED <<hpc, hreq, hsnap, hexpect, hresp, wr, last_write, spawned_since_reset, vars_store, vars_wf, vars_lt>>

\* A session whose end clears the flag.
SessionEndClearsFlag(s) ==
    /\ sess[s].st = "running"
    /\ \A p \in Writers : wr[p].pc # "idle" => wr[p].sess # s
    /\ sess' = [sess EXCEPT ![s] = NoSession]
    /\ monitoring_started' = FALSE
    /\ UNCHANGED <<hpc, hreq, hsnap, hexpect, hresp, wr, last_write, spawned_since_reset,
                   state_lock, task_lock, lt_lock, task_monitoring_data,
                   load_test_monitoring_data, vars_wf, vars_lt>>

\* start_monitoring returns (factory.rs:137): none of its steps is still in
\* an update of the store.
SessionEnd(s) ==
    /\ sess[s].st = "running"
    /\ \A p \in Writers : wr[p].pc # "idle" => wr[p].sess # s
    /\ sess' = [sess EXCEPT ![s] = NoSession]
    /\ UNCHANGED <<hpc, hreq, hsnap, hexpect, hresp, wr, last_write, spawned_since_reset, vars_store, vars_wf, vars_lt>>

\* A GET of /task_results or of /load_test_results arrives.
QueryArrive(h) ==
    /\ FirstIdleHandler(h)
    /\ \E route \in {"task_results", "load_test_results"} :
          hreq' = [hreq EXCEPT ![h] = [route |-> route, workflow_names |-> {}]]
    /\ hpc' = [hpc EXCEPT ![h] = "q_wait"]
    /\ hresp' = [hresp EXCEPT ![h] = "none"]
    /\ UNCHANGED <<hsnap, hexpect, sess, wr, last_write, spawned_since_reset, vars_store, vars_wf, vars_lt>>

\* data.lock().await (main.rs:104, 123)
QueryLockState(h) ==
    /\ hpc[h] = "q_wait"
    /\ LockFree(state_lock)
    /\ state_lock' = H(h)
    /\ hpc' = [hpc EXCEPT ![h] = "q_outer"]
    /\ UNCHANGED <<hreq, hsnap, hexpect, hresp, sess, wr, last_write, spawned_since_reset,
                   monitoring_started, task_lock, lt_lock, task_monitoring_data,
                   load_test_monitoring_data, vars_wf, vars_lt>>

\* app_state.task_monitoring_data.lock().await (main.rs:105) or
\* app_state.load_test_monitoring_data.lock().await (main.rs:124)
QueryLockMap(h) ==
    /\ hpc[h] = "q_outer"
    /\ IF hreq[h].route = "task_results"
       THEN LockFree(task_lock) /\ task_lock' = H(h) /\ UNCHANGED lt_lock
       ELSE LockFree(lt_lock) /\ lt_lock' = H(h) /\ UNCHANGED task_lock
    /\ hpc' = [hpc EXCEPT ![h] = "q_both"]
    /\ UNCHANGED <<hreq, hsnap, hexpect, hresp, sess, wr, last_write, spawned_since_reset,
                   monitoring_started, state_lock, task_monitoring_data,
                   load_test_monitoring_data, vars_wf, vars_lt>>

\* A clone after which only the guard of AppState is dropped: the guard of
\* the map is kept over the second lock of AppState.
QueryCloneKeepsMapLock(h) ==
    /\ hpc[h] = "q_both"
    /\ IF hreq[h].route = "task_results"
       THEN /\ hsnap' = [hsnap EXCEPT ![h] = task_monitoring_data]
            /\ hexpect' = [hexpect EXCEPT ![h] = last_write.task]
       ELSE /\ hsnap' = [hsnap EXCEPT ![h] = load_test_monitoring_data]
            /\ hexpect' = [hexpect EXCEPT ![h] = last_write.lt]
    /\ state_lock' = NoOne
    /\ hpc' = [hpc EXCEPT ![h] = "q_wait2"]
    /\ UNCHANGED <<hreq, hresp, sess, wr, last_write, spawned_since_reset, monitoring_started,
                   task_lock, lt_lock, task_monitoring_data, load_test_monitoring_data,
                   vars_wf, vars_lt>>

\* The clone and the end of the block, which drops both guards
\* (main.rs:107-108, 126-127).
QueryClone(h) ==
    /\ hpc[h] = "q_both"
    /\ IF hreq[h].route = "task_results"
       THEN /\ hsnap' = [hsnap EXCEPT ![h] = task_monitoring_data]
            /\ hexpect' = [hexpect EXCEPT ![h] = last_write.task]
            /\ task_lock' = NoOne /\ UNCHANGED lt_lock
       ELSE /\ hsnap' = [hsnap EXCEPT ![h] = load_test_monitoring_data]
            /\ hexpect' = [hexpect EXCEPT ![h] = last_write.lt]
            /\ lt_lock' = NoOne /\ UNCHANGED task_lock
    /\ state_lock' = NoOne
    /\ hpc' = [hpc EXCEPT ![h] = "q_wait2"]
    /\ UNCHANGED <<hreq, hresp, sess, wr, last_write, spawned_since_reset, monitoring_started,
                   task_monitoring_data, load_test_monitoring_data, vars_wf, vars_lt>>

\* The second data.lock().await, monitoring_started = false and the response
\* with the clone (main.rs:111-114, 130-133).
QueryReset(h) ==
    /\ hpc[h] = "q_wait2"
    /\ LockFree(state_lock)
    /\ monitoring_started' = FALSE
    /\ spawned_since_reset' = 0
    /\ hresp' = [hresp EXCEPT ![h] = "data"]
    /\ hreq' = [hreq EXCEPT ![h] = NoRequest]
    /\ hsnap' = [hsnap EXCEPT ![h] = EmptyMap]
    /\ hexpect' = [hexpect EXCEPT ![h] = NoWrites]
    /\ hpc' = [hpc EXCEPT ![h] = "idle"]
    /\ UNCHANGED <<sess, wr, last_write, state_lock, task_lock, lt_lock,
                   task_monitoring_data, load_test_monitoring_data, vars_wf, vars_lt>>

\* The steps of a session's workflows that write to the store: a Task whose
\* request could be built and sent, and every LoadTest.
WriterTasks(wfs) ==
    {t \in AllTasks : /\ t[1] \in wfs
                      /\ \/ IsLoadTest(t)
                         \/ IsTask(t) /\ Api(t[1], t[2]).headers_valid}

\* The records such a step can hand to its update: those of a 200 and of a
\* transport error.
StoreResponses == {[kind |-> "http", code |-> 200], [kind |-> "transport", code |-> 0]}

\* totals: the total_requests a campaign's record can carry
WriterDataOf(t, totals) ==
    IF IsTask(t)
    THEN {TaskOutcome(Api(t[1], t[2]), resp, MaxDurationMs).monitoring_data :
              resp \in StoreResponses}
    ELSE {LtData(Api(t[1], t[2]), n) : n \in totals}

WriterData(t) == WriterDataOf(t, {MaxLtRequests})

\* A step of a running session calls update_app_state (tasks.rs:75, 89, 104)
\* or update_load_test_app_state (loadtest.rs:287) with the record it built.
WriterCallWith(p, totals) ==
    /\ FirstIdleWriter(p)
    /\ \E s \in SessionIds :
          /\ sess[s].st = "running"
          /\ \E t \in WriterTasks(sess[s].wfs) : \E d \in WriterDataOf(t, totals) :
                wr' = [wr EXCEPT ![p] = [pc |-> "w_wait", sess |-> s, t |-> t, data |-> {d}]]
    /\ UNCHANGED <<hpc, hreq, hsnap, hexpect, hresp, sess, last_write, spawned_since_reset, vars_store, vars_wf, vars_lt>>

WriterCall(p) == WriterCallWith(p, {MaxLtRequests})

\* app_state.lock().await (tasks.rs:132, loadtest.rs:416)
WriterLockState(p) ==
    /\ wr[p].pc = "w_wait"
    /\ LockFree(state_lock)
    /\ state_lock' = W(p)
    /\ wr' = [wr EXCEPT ![p].pc = "w_outer"]
    /\ UNCHANGED <<hpc, hreq, hsnap, hexpect, hresp, sess, last_write, spawned_since_reset,
                   monitoring_started, task_lock, lt_lock, task_monitoring_data,
                   load_test_monitoring_data, vars_wf, vars_lt>>

\* state.task_monitoring_data.lock().await (tasks.rs:138) or
\* state.load_test_monitoring_data.lock().await (loadtest.rs:419)
WriterLockMap(p) ==
    /\ wr[p].pc = "w_outer"
    /\ IF IsTask(wr[p].t)
       THEN LockFree(task_lock) /\ task_lock' = W(p) /\ UNCHANGED lt_lock
       ELSE LockFree(lt_lock) /\ lt_lock' = W(p) /\ UNCHANGED task_lock
    /\ wr' = [wr EXCEPT ![p].pc = "w_both"]
    /\ UNCHANGED <<hpc, hreq, hsnap, hexpect, hresp, sess, last_write, spawned_since_reset,
                   monitoring_started, state_lock, task_monitoring_data,
                   load_test_monitoring_data, vars_wf, vars_lt>>

\* An insert that puts every record, a campaign's too, into the plain map.
WriterInsertPlainOnly(p) ==
    /\ wr[p].pc = "w_both"
    /\ LET t == wr[p].t
           d == CHOOSE x \in wr[p].data : TRUE
           k == <<WfName(t), TaskName(t)>>
       IN  /\ task_monitoring_data' = Upsert(task_monitoring_data, k[1], k[2], d)
           /\ last_write' = [last_write EXCEPT !.task[k] = {d}]
           /\ task_lock' = NoOne /\ lt_lock' = NoOne
           /\ UNCHANGED load_test_monitoring_data
    /\ state_lock' = NoOne
    /\ wr' = [wr EXCEPT ![p] = IdleWriter]
    /\ UNCHANGED <<hpc, hreq, hsnap, hexpect, hresp, sess, spawned_since_reset,
                   monitoring_started, vars_wf, vars_lt>>

\* entry(workflow_name).or_insert_with(HashMap::new), insert(task_name, data)
\* and the end of the function, which drops both guards (tasks.rs:141-152,
\* loadtest.rs:422-431).
WriterInsert(p) ==
    /\ wr[p].pc = "w_both"
    /\ LET t == wr[p].t
           d == CHOOSE x \in wr[p].data : TRUE
           k == <<WfName(t), TaskName(t)>>
       IN  IF IsTask(t)
           THEN /\ task_monitoring_data' = Upsert(task_monitoring_data, k[1], k[2], d)
                /\ last_write' = [last_write EXCEPT !.task[k] = {d}]
                /\ task_lock' = NoOne
                /\ UNCHANGED <<load_test_monitoring_data, lt_lock>>
           ELSE /\ load_test_monitoring_data' = Upsert(load_test_monitoring_data, k[1], k[2], d)
                /\ last_write' = [last_write EXCEPT !.lt[k] = {d}]
                /\ lt_lock' = NoOne
                /\ UNCHANGED <<task_monitoring_data, task_lock>>
    /\ state_lock' = NoOne
    /\ wr' = [wr EXCEPT ![p] = IdleWriter]
    /\ UNCHANGED <<hpc, hreq, hsnap, hexpect, hresp, sess, spawned_since_reset,
                   monitoring_started, vars_wf, vars_lt>>

\* The state main builds before the server runs (main.rs:67-71); no call of
\* start_monitoring is modelled step by step here.
Init ==
    /\ InitStore
    /\ InitProc
    /\ InitRetryIdle /\ InitCampaignIdle /\ InitAggIdle
    /\ InitTasks
    /\ sm_pc = "none"
    /\ sm_wfs = {}

Next ==
    \/ \E h \in Handlers : TriggerArrive(h)
    \/ \E h \in Handlers : TriggerCheck(h)
    \/ \E h \in Handlers : TriggerSet(h)
    \/ \E h \in Handlers : QueryArrive(h)
    \/ \E h \in Handlers : QueryLockState(h)
    \/ \E h \in Handlers : QueryLockMap(h)
    \/ \E h \in Handlers : QueryClone(h)
    \/ \E h \in Handlers : QueryReset(h)
    \/ \E s \in SessionIds : SessionBegin(s)
    \/ \E s \in SessionIds : SessionEnd(s)

Spec == Init /\ [][Next]_vars

\* The store while one session runs all the workflows: the updates of its
\* steps against one handler that serves the queries of either map.
InitStoreSpec ==
    /\ InitStore
    /\ InitRetryIdle /\ InitCampaignIdle /\ InitAggIdle
    /\ hpc = [h \in Handlers |-> "idle"]
    /\ hreq = [h \in Handlers |-> NoRequest]
    /\ hsnap = [h \in Handlers |-> EmptyMap]
    /\ hexpect = [h \in Handlers |-> NoWrites]
    /\ hresp = [h \in Handlers |-> "none"]
    /\ sess = [s \in SessionIds |-> IF s = 1 THEN [st |-> "running", wfs |-> WfIds]
                                              ELSE NoSession]
    /\ wr = [p \in Writers |-> IdleWriter]
    /\ last_write = [task |-> NoWrites, lt |-> NoWrites]
    /\ spawned_since_reset = 0
    /\ InitTasks
    /\ sm_pc = "none"
    /\ sm_wfs = {}

NextStore ==
    \/ QueryArrive(1)
    \/ QueryLockState(1)
    \/ QueryLockMap(1)
    \/ QueryClone(1)
    \/ QueryReset(1)
    \/ \E p \in Writers : WriterCall(p)
    \/ \E p \in Writers : WriterLockState(p)
    \/ \E p \in Writers : WriterLockMap(p)
    \/ \E p \in Writers : WriterInsert(p)

SpecStore == InitStoreSpec /\ [][NextStore]_vars

\* The writers alone, a session over every workflow running, with the flag
\* as a trigger set it or as a query cleared it, and campaigns that end with
\* any total of 0..MaxLtRequests.
InitWrites ==
    /\ monitoring_started \in BOOLEAN
    /\ state_lock = NoOne /\ task_lock = NoOne /\ lt_lock = NoOne
    /\ task_monitoring_data = EmptyMap
    /\ load_test_monitoring_data = EmptyMap
    /\ InitRetryIdle /\ InitCampaignIdle /\ InitAggIdle
    /\ hpc = [h \in Handlers |-> "idle"]
    /\ hreq = [h \in Handlers |-> NoRequest]
    /\ hsnap = [h \in Handlers |-> EmptyMap]
    /\ hexpect = [h \in Handlers |-> NoWrites]
    /\ hresp = [h \in Handlers |-> "none"]
    /\ sess = [s \in SessionIds |-> IF s = 1 THEN [st |-> "running", wfs |-> WfIds]
                                              ELSE NoSession]
    /\ wr = [p \in Writers |-> IdleWriter]
    /\ last_write = [task |-> NoWrites, lt |-> NoWrites]
    /\ spawned_since_reset = 0
    /\ InitTasks
    /\ sm_pc = "none"
    /\ sm_wfs = {}

NextWrites ==
    \/ \E p \in Writers : WriterCallWith(p, 0..MaxLtRequests)
    \/ \E p \in Writers : WriterLockState(p)
    \/ \E p \in Writers : WriterLockMap(p)
    \/ \E p \in Writers : WriterInsert(p)

SpecWrites == InitWrites /\ [][NextWrites]_vars

\* The three locks under every kind of caller at once: the handlers serve
\* GET triggers and queries of either map while the steps of the running
\* sessions update a plain record (W1.S1) and a load-test record (W1.S3).
\* The first session runs W1, as after a webhook for it and a query.
LockTasks == {<<1, 1>>, <<1, 3>>}

InitLocks ==
    /\ InitStore
    /\ InitRetryIdle /\ InitCampaignIdle /\ InitAggIdle
    /\ hpc = [h \in Handlers |-> "idle"]
    /\ hreq = [h \in Handlers |-> NoRequest]
    /\ hsnap = [h \in Handlers |-> EmptyMap]
    /\ hexpect = [h \in Handlers |-> NoWrites]
    /\ hresp = [h \in Handlers |-> "none"]
    /\ sess = [s \in SessionIds |-> IF s = 1 THEN [st |-> "running", wfs |-> {1}]
                                              ELSE NoSession]
    /\ wr = [p \in Writers |-> IdleWriter]
    /\ last_write = [task |-> NoWrites, lt |-> NoWrites]
    /\ spawned_since_reset = 0
    /\ InitTasks
    /\ sm_pc = "none"
    /\ sm_wfs = {}

NextLocks ==
    \/ \E h \in Handlers : TriggerArrive(h) /\ hreq'[h].route = "trigger"
    \/ \E h \in Handlers : TriggerCheck(h)
    \/ \E h \in Handlers : TriggerSet(h)
    \/ \E h \in Handlers : QueryArrive(h)
    \/ \E h \in Handlers : QueryLockState(h)
    \/ \E h \in Handlers : QueryLockMap(h)
    \/ \E h \in Handlers : QueryClone(h)
    \/ \E h \in Handlers : QueryReset(h)
    \/ \E s \in SessionIds : SessionBegin(s)
    \/ \E s \in SessionIds : SessionEnd(s)
    \/ \E p \in Writers :
          /\ WriterCall(p)
          /\ wr'[p].t \in LockTasks
          /\ \A d \in wr'[p].data : "status" \in DOMAIN d => d.status = "OK"
    \/ \E p \in Writers : WriterLockState(p)
    \/ \E p \in Writers : WriterLockMap(p)
    \/ \E p \in Writers : WriterInsert(p)

\* The runtime polls a task that is ready: a caller that holds the lock of
\* AppState and is not made to wait goes on to its next step.
FairLocks ==
    /\ \A h \in Handlers : WF_vars(TriggerSet(h) \/ QueryLockMap(h) \/ QueryClone(h))
    /\ \A p \in Writers : WF_vars(WriterLockMap(p) \/ WriterInsert(p))

SpecLocks == InitLocks /\ [][NextLocks]_vars /\ FairLocks

\* LoadTest::execute for every retry_count, against every sequence of
\* results of run_load_test.
InitRetry ==
    /\ InitStore /\ InitProc /\ InitTasks /\ InitCampaignIdle /\ InitAggIdle
    /\ sm_pc = "none"
    /\ sm_wfs = {}
    /\ retry_count \in RetryCounts
    /\ rt_pc = "start"
    /\ attempt = 0
    /\ rt_log = << >>
    /\ rt_waits = << >>
    /\ rt_slept = 0
    /\ rt_ret = NoReturn

NextRetry ==
    \/ RetryBegin
    \/ RetryLoop
    \/ \E res \in CampaignResults : RetryMatch(res)
    \/ RetrySleep
    \/ RetryWake

SpecRetry == InitRetry /\ [][NextRetry]_vars

\* One call of run_load_test for every LoadTestConfig.
InitCampaign ==
    /\ InitStore /\ InitProc /\ InitTasks /\ InitRetryIdle /\ InitAggIdle
    /\ sm_pc = "none"
    /\ sm_wfs = {}
    /\ lt_cfg \in LoadTestConfigs
    /\ lt_pc = "start"
    /\ current_load = 0
    /\ elapsed = 0
    /\ ticks = 0
    /\ permits = 0
    /\ worker = NoWorkers
    /\ all_results = [o \in Outcomes |-> 0]

NextCampaign ==
    \/ CampaignStart
    \/ TimePasses
    \/ CampaignLoop
    \/ CampaignTick
    \/ \E i \in WorkerIds : WorkerAcquire(i)
    \/ \E i \in WorkerIds : \E out \in Outcomes : WorkerFinish(i, out)
    \/ \E i \in WorkerIds : WorkerPanic(i)
    \/ CampaignJoin
    \/ CampaignWrite

SpecCampaign == InitCampaign /\ [][NextCampaign]_vars

\* The runtime runs every task that can go on, every request ends (the
\* client's timeout, factory.rs:122-131) and time advances.
FairCampaign ==
    /\ WF_vars(NextCampaign)
    /\ WF_vars(TimePasses)

SpecCampaignFair == InitCampaign /\ [][NextCampaign]_vars /\ FairCampaign

\* One call of run_load_test with its results entry by entry, from the
\* first tick to the metrics in the store.
NextCampaignEnd ==
    \/ CampaignStart
    \/ TimePasses
    \/ CampaignLoop
    \/ CampaignTick
    \/ \E i \in WorkerIds : WorkerAcquire(i)
    \/ \E i \in WorkerIds : \E out \in Outcomes : WorkerFinish(i, out)
    \/ \E i \in WorkerIds : WorkerPanic(i)
    \/ CampaignJoin
    \/ CampaignCollect
    \/ AggFilter
    \/ AggAnalyze
    \/ AggWrite
    \/ CampaignReturn

SpecCampaignEnd == InitCampaign /\ [][NextCampaignEnd]_vars

\* One call of run_load_test for the configuration initial_load = 1,
\* max_load = 3, spawn_rate = 1, max_duration_secs = 5.
RampConfig == [initial_load |-> {1}, max_load |-> {3}, spawn_rate |-> {1},
               max_duration_secs |-> {5}]

InitRamp ==
    /\ InitStore /\ InitProc /\ InitTasks /\ InitRetryIdle /\ InitAggIdle
    /\ sm_pc = "none"
    /\ sm_wfs = {}
    /\ lt_cfg = RampConfig
    /\ lt_pc = "start"
    /\ current_load = 0
    /\ elapsed = 0
    /\ ticks = 0
    /\ permits = 0
    /\ worker = NoWorkers
    /\ all_results = [o \in Outcomes |-> 0]

SpecRamp == InitRamp /\ [][NextCampaign]_vars

\* One call of LoadTest::execute with the campaign it runs, for every
\* LoadTestConfig.
InitLoadTest ==
    /\ InitStore /\ InitProc /\ InitTasks /\ InitAggIdle
    /\ sm_pc = "none"
    /\ sm_wfs = {}
    /\ retry_count \in RetryCounts
    /\ rt_pc = "start"
    /\ attempt = 0
    /\ rt_log = << >>
    /\ rt_waits = << >>
    /\ rt_slept = 0
    /\ rt_ret = NoReturn
    /\ lt_cfg \in LoadTestConfigs
    /\ lt_pc = "idle"
    /\ current_load = 0
    /\ elapsed = 0
    /\ ticks = 0
    /\ permits = 0
    /\ worker = NoWorkers
    /\ all_results = [o \in Outcomes |-> 0]

NextLoadTest ==
    \/ RetryBegin
    \/ RetryLoop
    \/ ExecuteCall
    \/ CampaignStart
    \/ TimePasses
    \/ CampaignLoop
    \/ CampaignTick
    \/ \E i \in WorkerIds : WorkerAcquire(i)
    \/ \E i \in WorkerIds : \E out \in Outcomes : WorkerFinish(i, out)
    \/ \E i \in WorkerIds : WorkerPanic(i)
    \/ CampaignJoin
    \/ CampaignWrite
    \/ ExecuteReturn(run_load_test_result)

SpecLoadTest == InitLoadTest /\ [][NextLoadTest]_vars

\* The same under the runtime's scheduling: execute and the tasks it spawned
\* go on whenever they can, and time advances.
FairLoadTest ==
    /\ WF_vars(NextLoadTest)
    /\ WF_vars(TimePasses)

SpecLoadTestFair == InitLoadTest /\ [][NextLoadTest]_vars /\ FairLoadTest

\* The end of run_load_test for every all_results of the bounds.
InitAggregate ==
    /\ InitStore /\ InitProc /\ InitTasks /\ InitRetryIdle /\ InitCampaignIdle
    /\ sm_pc = "none"
    /\ sm_wfs = {}
    /\ ag_pc = "filter"
    /\ ag_all_results \in SeqsUpTo(WorkerResults, MaxResults)
    /\ filtered_results = << >>
    /\ ag_metrics = {}

NextAggregate ==
    \/ AggFilter
    \/ AggAnalyze
    \/ AggWrite

SpecAggregate == InitAggregate /\ [][NextAggregate]_vars

\* The end of run_load_test for lists of responses of up to MaxListLen
\* entries, whose durations repeat and are not in order: the i-th is
\* (i * stride) % modulus.
Strides == {1, 3, 7}
Moduli == {5, 11, 23}
ResponseList(n, stride, modulus) ==
    [i \in 1..n |-> [kind |-> "Ok", status |-> 200,
                     duration_ms |-> (i * stride) % modulus, bytes |-> 0]]

InitPercentile ==
    /\ InitStore /\ InitProc /\ InitTasks /\ InitRetryIdle /\ InitCampaignIdle
    /\ sm_pc = "none"
    /\ sm_wfs = {}
    /\ ag_pc = "filter"
    /\ \E n \in 0..MaxListLen, stride \in Strides, modulus \in Moduli :
          ag_all_results = ResponseList(n, stride, modulus)
    /\ filtered_results = << >>
    /\ ag_metrics = {}

SpecPercentile == InitPercentile /\ [][NextAggregate]_vars

----------------------------------------------------------------------------
(* Claims checked under SpecWorkflow *)

Order(w, i) == get_task_order(Api(w, i))
Started(t) == task_pc[t] \notin {"pending"}
Finished(t) == task_pc[t] = "done"

\* C1: within one workflow run, no step of a group with order key b has
\* started while a step of a group with a smaller order key a has not
\* finished, in every reachable interleaving of the steps' completions.
C1_GroupsSequential ==
    \A w \in WfIds : \A i, j \in Monitors(w) :
        (Order(w, i) < Order(w, j) /\ Started(<<w, j>>)) => Finished(<<w, i>>)

\* The order-2 step of W1 is in flight, both order-1 steps are finished and
\* the step without an order has not started.
C1_Witness ==
    /\ task_pc[<<1, 1>>] = "sent"
    /\ Finished(<<1, 2>>) /\ Finished(<<1, 3>>)
    /\ ~Started(<<1, 4>>)

\* C4: a failed execute neither cancels nor blocks another step: no step is
\* executed twice, and a workflow whose orchestration is over has executed
\* every one of its steps exactly once, its failed steps' siblings and the
\* steps of the later groups included.
C4_FailureDoesNotBlock ==
    /\ \A t \in AllTasks : exec_count[t] <= 1
    /\ \A w \in sm_wfs : WorkflowDone(w) =>
          \A i \in Monitors(w) : exec_count[<<w, i>>] = 1 /\ Finished(<<w, i>>)
    /\ sm_pc = "returned" => \A w \in sm_wfs : WorkflowDone(w)

\* start_monitoring has returned; in W1 the order-1 step S2 failed at request
\* construction, the order-2 step S1 got a non-2xx answer and the last step
\* S4 failed at construction, the step of W2 failed in transport, and the
\* sibling S3 and every later step ran once.
C4_Witness ==
    /\ sm_pc = "returned" /\ sm_wfs = WfIds
    /\ task_result[<<1, 2>>] = "Err" /\ send_count[<<1, 2>>] = 0
    /\ task_result[<<1, 1>>] = "Err" /\ task_data[<<1, 1>>].resp.kind = "http"
    /\ task_result[<<1, 4>>] = "Err" /\ send_count[<<1, 4>>] = 0
    /\ task_result[<<2, 1>>] = "Err" /\ task_data[<<2, 1>>].resp.kind = "transport"
    /\ \A i \in Monitors(1) : exec_count[<<1, i>>] = 1

\* C5 (as claimed): every finished call of Task::execute has written exactly
\* one record under (workflow name, step name), whatever its outcome.
C5_ExecuteWritesOneRecord ==
    \A t \in AllTasks : (IsTask(t) /\ Finished(t)) =>
        /\ write_count[t] = 1
        /\ HasEntry(task_monitoring_data, WfName(t), TaskName(t))

\* C6: a 2xx response records "OK" with its code and execute returns Ok; any
\* other response records "ERROR" with its code and execute returns Err; a
\* transport failure records "ERROR" without a code and execute returns Err;
\* the recorded status is "OK" exactly when execute returns Ok.
C6_Classification ==
    \A t \in AllTasks : (IsTask(t) /\ Finished(t) /\ send_count[t] = 1) =>
        LET resp == task_data[t].resp
            e == Entry(task_monitoring_data, WfName(t), TaskName(t))
        IN  /\ e # {}
            /\ \A r \in e :
                /\ (resp.kind = "http" /\ resp.code \in 200..299) =>
                      (r.status = "OK" /\ r.status_code = {resp.code}
                       /\ task_result[t] = "Ok")
                /\ (resp.kind = "http" /\ resp.code \notin 200..299) =>
                      (r.status = "ERROR" /\ r.status_code = {resp.code}
                       /\ task_result[t] = "Err")
                /\ resp.kind = "transport" =>
                      (r.status = "ERROR" /\ r.status_code = {}
                       /\ task_result[t] = "Err")
                /\ (r.status = "OK") <=> (task_result[t] = "Ok")

\* Three finished steps: S1 of W1 answered 299, S2 of W1 answered 300, and
\* the request of S1 of W2 failed in transport.
C6_Witness ==
    /\ Finished(<<1, 1>>) /\ task_data[<<1, 1>>].resp = [kind |-> "http", code |-> 299]
    /\ Finished(<<1, 2>>) /\ task_data[<<1, 2>>].resp = [kind |-> "http", code |-> 300]
    /\ Finished(<<2, 1>>) /\ task_data[<<2, 1>>].resp.kind = "transport"
    /\ task_monitoring_data["W1"]["S1"].status = "OK"
    /\ task_monitoring_data["W1"]["S2"].status = "ERROR"
    /\ task_monitoring_data["W2"]["S1"].status_code = {}

----------------------------------------------------------------------------
(* Claims checked under Spec *)

LiveSessions == {s \in SessionIds : Live(s)}
InCheckAndSet(h) == hpc[h] = "t_set"

\* C2 (as claimed): at no time are two sessions alive, whatever the
\* interleaving of triggers, queries and session progress.
C2_NoOverlappingSessions == Cardinality(LiveSessions) <= 1

\* C3: the check and the set of monitoring_started are one atomic step. At
\* most one trigger handler is between its check and its set, and it holds
\* the lock of AppState; between two clears of the flag by a query at most
\* one session is spawned; and once the lock is free again after a spawn the
\* flag is set, so that the other trigger is answered "already running".
C3_AtomicCheckAndSet ==
    /\ \A g, h \in Handlers : (InCheckAndSet(g) /\ InCheckAndSet(h)) => g = h
    /\ \A h \in Handlers : InCheckAndSet(h) => (state_lock = H(h) /\ ~monitoring_started)
    /\ spawned_since_reset <= 1
    /\ (state_lock = NoOne /\ spawned_since_reset = 1) => monitoring_started

\* Two triggers have arrived while the flag is false: the GET has passed the
\* check and spawned its session, the webhook waits for the lock.
C3_Witness ==
    /\ hpc[1] = "t_set" /\ hreq[1].route = "trigger"
    /\ hpc[2] = "t_wait" /\ hreq[2].route = "webhook"
    /\ hreq[2].workflow_names = {"W1", "Wx"}
    /\ ~monitoring_started
    /\ Cardinality(LiveSessions) = 1

----------------------------------------------------------------------------
(* Claims checked under SpecStore *)

StoredKeys(m) == UNION {{<<w, s>> : s \in DOMAIN m[w]} : w \in DOMAIN m}

\* C9: concurrent writers never lose an update and never touch another key:
\* every key of either map holds exactly the value of the last write to that
\* key, and no entry at all where none was written.
C9_NoLostUpdate ==
    /\ StoredKeys(task_monitoring_data) \subseteq Keys
    /\ StoredKeys(load_test_monitoring_data) \subseteq Keys
    /\ \A k \in Keys :
          /\ Entry(task_monitoring_data, k[1], k[2]) = last_write.task[k]
          /\ Entry(load_test_monitoring_data, k[1], k[2]) = last_write.lt[k]

\* Two updates of different keys are in progress, one holding both locks and
\* one waiting, while (W1,S1), (W1,S2) and (W2,S1) hold records of which two
\* differ in status.
C9_Witness ==
    /\ wr[1].pc = "w_both" /\ wr[2].pc = "w_wait" /\ wr[1].t # wr[2].t
    /\ HasEntry(task_monitoring_data, "W1", "S1")
    /\ HasEntry(task_monitoring_data, "W1", "S2")
    /\ HasEntry(task_monitoring_data, "W2", "S1")
    /\ task_monitoring_data["W1"]["S1"].status # task_monitoring_data["W1"]["S2"].status
    /\ HasEntry(load_test_monitoring_data, "W1", "S3")

\* C10: every record of the store and of a clone a query handler holds is,
\* in all its fields, the record one single write stored under its key (the
\* last one before the clone was taken): no record mixes two writes.
C10_WholeRecords ==
    /\ \A k \in StoredKeys(task_monitoring_data) :
          {task_monitoring_data[k[1]][k[2]]} = last_write.task[k]
    /\ \A k \in StoredKeys(load_test_monitoring_data) :
          {load_test_monitoring_data[k[1]][k[2]]} = last_write.lt[k]
    /\ \A h \in Handlers : hpc[h] = "q_wait2" =>
          \A k \in StoredKeys(hsnap[h]) : {hsnap[h][k[1]][k[2]]} = hexpect[h][k]

\* A query handler holds a clone of the task map whose (W1,S1) record has
\* since been overwritten with another status, while the next update waits.
C10_Witness ==
    /\ hpc[1] = "q_wait2" /\ hreq[1].route = "task_results"
    /\ HasEntry(hsnap[1], "W1", "S1")
    /\ hsnap[1]["W1"]["S1"].status = "OK"
    /\ task_monitoring_data["W1"]["S1"].status = "ERROR"
    /\ \E p \in Writers : wr[p].pc = "w_wait"

----------------------------------------------------------------------------
(* Claims checked under SpecRetry *)

AllErr(log) == \A i \in 1..Len(log) : IsErr(log[i])

\* C7: with retry_count = r, execute calls run_load_test at most r+1 times;
\* every call after the first comes after one whole backoff sleep; when all
\* the calls fail it makes exactly r+1 of them, sleeps r times and returns
\* the failure only after the last; a call that succeeds ends the loop at
\* once with Ok and without a further sleep.
C7_RetryLoop ==
    LET m == max_attempts(retry_count)
        n == Len(rt_log)
    IN  /\ n <= m + 1
        /\ Len(rt_waits) <= m
        /\ \A i \in 1..Len(rt_waits) : rt_waits[i] = BackoffSecs
        /\ rt_pc = "running" => Len(rt_waits) = n
        /\ rt_pc # "returned" => (AllErr(rt_log) /\ rt_ret = NoReturn)
        /\ rt_pc = "returned" =>
              /\ rt_ret.kind \in {"Ok", "Err"}
              /\ rt_ret.msg # "Maximum retry attempts reached"
              /\ Len(rt_waits) = n - 1
              /\ \A i \in 1..(n - 1) : IsErr(rt_log[i])
              /\ AllErr(rt_log) =>
                    (n = m + 1 /\ rt_ret.kind = "Err" /\ rt_ret.after = m + 1)
              /\ rt_ret.kind = "Err" => (AllErr(rt_log) /\ n = m + 1)
              /\ ~AllErr(rt_log) => rt_ret.kind = "Ok"

\* retry_count = 2 and three failed calls: execute has returned the failure
\* after the third, having slept twice for the backoff.
C7_Witness ==
    /\ retry_count = {2}
    /\ rt_pc = "returned"
    /\ Len(rt_log) = 3 /\ AllErr(rt_log)
    /\ rt_waits = <<BackoffSecs, BackoffSecs>>
    /\ rt_ret.kind = "Err" /\ rt_ret.after = 3

----------------------------------------------------------------------------
(* Claims checked under SpecCampaign *)

\* C8: at every moment of a campaign the requests in flight are at most
\* current_load: they and the free permits of the tick's semaphore add up to
\* current_load, and between two ticks no worker of the campaign is left in
\* flight.
C8_InFlightAtMostCurrentLoad ==
    /\ Cardinality(InFlight) <= current_load
    /\ permits >= 0
    /\ lt_pc = "join" => Cardinality(InFlight) + permits = current_load
    /\ lt_pc # "join" => \A i \in WorkerIds : worker[i] = "none"

\* The second tick of a campaign that ramps by two: both its workers are in
\* flight under a load of four.
C8_Witness ==
    /\ ticks = 2
    /\ Cardinality(InFlight) = 2
    /\ current_load = 4
    /\ permits = 2

----------------------------------------------------------------------------
(* Claims checked under SpecLocks *)

LockNames == {"state", "task", "lt"}
Locks == [state |-> state_lock, task |-> task_lock, lt |-> lt_lock]

\* The lock a caller's next step asks for, "none" when it asks for none.
HandlerWants(h) ==
    IF hpc[h] \in {"t_wait", "q_wait", "q_wait2"} THEN "state"
    ELSE IF hpc[h] = "q_outer"
         THEN (IF hreq[h].route = "task_results" THEN "task" ELSE "lt")
         ELSE "none"
WriterWants(p) ==
    IF wr[p].pc = "w_wait" THEN "state"
    ELSE IF wr[p].pc = "w_outer" THEN (IF IsTask(wr[p].t) THEN "task" ELSE "lt")
         ELSE "none"

Callers == {H(h) : h \in Handlers} \cup {W(p) : p \in Writers}
Wants(c) == IF c[1] = "handler" THEN HandlerWants(c[2]) ELSE WriterWants(c[2])
Blocked(c) == Wants(c) # "none" /\ Locks[Wants(c)] # NoOne
HoldsALock(c) == \E l \in LockNames : Locks[l] = c

----------------------------------------------------------------------------
(* Further claims checked under Spec *)

SessionsIn(st) == {s \in SessionIds : sess[s].st = st}

\* C12: monitoring_started is set before the spawned start_monitoring begins
\* to run. While a trigger handler is between its tokio::spawn and its write
\* of the flag, the flag being still false, the session it spawned has not
\* begun; and a session that has not yet been handed to the runtime belongs
\* to such a handler.
C12_FlagSetBeforeSessionRuns ==
    /\ \A h \in Handlers : InCheckAndSet(h) =>
          (~monitoring_started /\ Cardinality(SessionsIn("created")) = 1)
    /\ SessionsIn("created") # {} => \E h \in Handlers : InCheckAndSet(h)

\* A GET trigger has been answered, its session runs and the flag is true.
C12_Witness ==
    /\ hresp[1] = "Monitoring started."
    /\ sess[1].st = "running" /\ sess[1].wfs = WfIds
    /\ monitoring_started
    /\ spawned_since_reset = 1

\* C13: monitoring_started falls from true to false only in the last step of
\* a query handler; the end of a session leaves it true, so that a trigger
\* whose check comes after a session was spawned, finished or not, and before
\* a query has cleared the flag is answered that monitoring is already
\* running.
C13_OnlyQueryClearsFlag ==
    /\ [][(monitoring_started /\ ~monitoring_started') =>
             \E h \in Handlers : /\ hpc[h] = "q_wait2" /\ hpc'[h] = "idle"
                                 /\ hresp'[h] = "data"]_vars
    /\ [][\A s \in SessionIds : (sess[s].st = "running" /\ sess'[s].st = "none") =>
             monitoring_started' = monitoring_started]_vars
    /\ [][\A h \in Handlers :
             (hpc[h] = "t_wait" /\ hpc'[h] # "t_wait" /\ spawned_since_reset = 1) =>
                (hresp'[h] = "Monitoring is already running." /\ sess' = sess)]_vars

\* The session a trigger started has finished, no query has come, and a
\* second trigger has been answered that monitoring is already running.
C13_Witness ==
    /\ \A s \in SessionIds : sess[s].st = "none"
    /\ spawned_since_reset = 1
    /\ monitoring_started
    /\ hresp[1] = "Monitoring is already running."
    /\ \A h \in Handlers : hpc[h] = "idle"

\* C14: a webhook whose workflow_names match no workflow by name is answered
\* with the error "No matching workflows found." and spawns no session; a
\* webhook with a match spawns a session of exactly the workflows named.
C14_NoMatchIsAnError ==
    \A h \in Handlers : hreq[h].route = "webhook" =>
       LET wfs == filtered_workflows(hreq[h].workflow_names)
       IN  /\ (wfs = {} /\ hresp[h] # "none") =>
                 hresp[h] = "No matching workflows found."
           /\ wfs = {} => hpc[h] # "t_set"
           /\ hpc[h] = "t_set" =>
                 \E s \in SessionIds : sess[s] = [st |-> "created", wfs |-> wfs]

----------------------------------------------------------------------------
(* Further claims checked under SpecWorkflow *)

Unordered(w, i) == Api(w, i).task_order = {}

\* C15 (as claimed): the steps without an order start together, and only
\* after every step that declares an order has finished; in W1, with orders
\* [2, 1, 1, none], S2 and S3 finish before S1 starts and S4 starts last.
C15_UnorderedAfterEveryOrdered ==
    /\ \A w \in WfIds : \A i, j \in Monitors(w) :
          /\ (Unordered(w, i) /\ Unordered(w, j)) =>
                (Started(<<w, i>>) <=> Started(<<w, j>>))
          /\ (Unordered(w, i) /\ ~Unordered(w, j) /\ Started(<<w, i>>)) =>
                Finished(<<w, j>>)
    /\ Started(<<1, 1>>) => (Finished(<<1, 2>>) /\ Finished(<<1, 3>>))
    /\ Started(<<1, 4>>) => \A j \in 1..3 : Finished(<<1, j>>)

\* C15 (amended): the steps without an order start together, and only after
\* every step that declares an order below the largest usize has finished; a
\* step that declares the largest usize is in their group.
C15_UnorderedLast ==
    /\ \A w \in WfIds : \A i, j \in Monitors(w) :
          /\ (Unordered(w, i) /\ Unordered(w, j)) =>
                (Started(<<w, i>>) <=> Started(<<w, j>>))
          /\ (Unordered(w, i) /\ ~Unordered(w, j) /\ Order(w, j) < UsizeMax
                /\ Started(<<w, i>>)) => Finished(<<w, j>>)
          /\ (Unordered(w, i) /\ Order(w, j) = UsizeMax) =>
                (Started(<<w, i>>) <=> Started(<<w, j>>))
    /\ Started(<<1, 1>>) => (Finished(<<1, 2>>) /\ Finished(<<1, 3>>))
    /\ Started(<<1, 4>>) => \A j \in 1..3 : Finished(<<1, j>>)

\* In W1 the step without an order is in flight after the three ordered
\* steps have finished; in W2 both steps without an order have started
\* while the step that declares the largest usize has not finished.
C15_Witness ==
    /\ task_pc[<<1, 4>>] = "ready" /\ \A j \in 1..3 : Finished(<<1, j>>)
    /\ task_pc[<<2, 1>>] = "sent" /\ task_pc[<<2, 3>>] = "ready"
    /\ task_pc[<<2, 2>>] = "ready"

\* C16: start_monitoring has returned only if the orchestration of every
\* workflow passed to it is over; a workflow whose orchestration is over has
\* run every one of its steps, whatever failed in it or in another workflow,
\* and its end alone does not end the call; once every workflow's
\* orchestration is over, start_monitoring returns.
C16_ReturnsWhenAllDone ==
    /\ [](sm_pc = "returned" => \A w \in sm_wfs : WorkflowDone(w))
    /\ [](\A w \in sm_wfs : WorkflowDone(w) =>
             \A i \in Monitors(w) : Finished(<<w, i>>) /\ task_result[<<w, i>>] # "none")
    /\ (\A w \in sm_wfs : WorkflowDone(w)) ~> (sm_pc = "returned")

\* start_monitoring has returned from both workflows: W2, whose steps all
\* failed, was over while W1 was still in its first group, and W1 went on to
\* answer its order-2 step with success.
C16_Witness ==
    /\ sm_pc = "returned" /\ sm_wfs = WfIds
    /\ \A i \in Monitors(2) : task_result[<<2, i>>] = "Err"
    /\ task_result[<<1, 1>>] = "Ok" /\ task_result[<<1, 3>>] = "Ok"
    /\ \A w \in WfIds : WorkflowDone(w)

----------------------------------------------------------------------------
(* Claims checked under SpecLoadTest *)

\* C17: a campaign ends by writing its metrics and returning Ok, whatever
\* its workers returned: execute returns Ok on its first attempt, with no
\* retry and no back-off, also when workers got non-2xx responses or failed.
C17_TrafficErrorsAreNoFailure ==
    /\ attempt = 0 /\ rt_waits = << >> /\ rt_pc # "sleep"
    /\ Len(rt_log) <= 1
    /\ lt_pc = "returned" =>
          /\ HasEntry(load_test_monitoring_data, Workflows[1].name, LtApi.name)
          /\ load_test_monitoring_data[Workflows[1].name][LtApi.name].total_requests
                = all_results["2xx"] + all_results["non2xx"]
    /\ rt_pc = "returned" =>
          /\ lt_pc = "returned"
          /\ rt_ret = [kind |-> "Ok", after |-> 0, msg |-> ""]
          /\ rt_log = <<"Ok">>

\* execute has returned Ok from a campaign with retries allowed in which a
\* worker got a non-2xx response and another failed.
C17_Witness ==
    /\ rt_pc = "returned" /\ rt_ret.kind = "Ok"
    /\ max_attempts(retry_count) >= 1
    /\ all_results["non2xx"] >= 1 /\ all_results["err"] >= 1
    /\ HasEntry(load_test_monitoring_data, Workflows[1].name, LtApi.name)

----------------------------------------------------------------------------
(* Claims checked under SpecAggregate *)

RECURSIVE SumOver(_, _)
SumOver(f, S) ==
    IF S = {} THEN 0
    ELSE LET x == CHOOSE y \in S : TRUE IN f[x] + SumOver(f, S \ {x})

OkEntries == {i \in DOMAIN ag_all_results : ag_all_results[i].kind = "Ok"}
Written == load_test_monitoring_data[Workflows[1].name][LtApi.name]

analyzed == CHOOSE m \in ag_metrics : TRUE

\* C19: for a non-empty list of results, analyze_results returns
\* min <= median <= max and min <= average <= max.
C19_MedianAndAverageWithinRange ==
    (ag_metrics # {} /\ filtered_results # << >>) =>
       /\ analyzed.min_response_time_ms <= analyzed.median_response_time_ms
       /\ analyzed.median_response_time_ms <= analyzed.max_response_time_ms
       /\ analyzed.min_response_time_ms <= analyzed.average_response_time_ms
       /\ analyzed.average_response_time_ms <= analyzed.max_response_time_ms

\* Two responses of 1 ms and 2 ms are analysed: the median and the average
\* are 1, rounded down, the minimum is 1 and the maximum 2.
C19_Witness ==
    /\ ag_metrics # {}
    /\ Len(filtered_results) = 2
    /\ analyzed.min_response_time_ms = 1 /\ analyzed.max_response_time_ms = 2
    /\ analyzed.median_response_time_ms = 1 /\ analyzed.average_response_time_ms = 1

\* C20 (as claimed): for the empty list of results, analyze_results returns
\* 0 for the minimum, the median, the maximum and the average, for the 95th
\* percentile, for both counts and for the average response size.
C20_EmptyListAllZero ==
    (ag_metrics # {} /\ filtered_results = << >>) =>
       /\ analyzed.min_response_time_ms = 0
       /\ analyzed.median_response_time_ms = 0
       /\ analyzed.max_response_time_ms = 0
       /\ analyzed.average_response_time_ms = 0
       /\ analyzed.percentile_95th_response_time_ms = 0
       /\ analyzed.success_count = 0 /\ analyzed.failure_count = 0
       /\ analyzed.average_bytes_per_response = 0

----------------------------------------------------------------------------
(* Further claims checked under SpecWorkflow: request construction *)

\* C21: a step whose request cannot be built, for an invalid header or an
\* unreadable body file, ends its execute with the error and without a send:
\* a step with an invalid header is never sent, and a finished step that was
\* not sent has returned Err and has built and written no record.
C21_NoSendAfterConstructionError ==
    \A t \in AllTasks : IsTask(t) =>
       /\ ~Api(t[1], t[2]).headers_valid => send_count[t] = 0
       /\ (Finished(t) /\ send_count[t] = 0) =>
             /\ task_result[t] = "Err"
             /\ task_data[t] = NoData
             /\ write_count[t] = 0
       /\ send_count[t] <= exec_count[t]

\* In W1 the body file of S2 could not be read and S4 has an invalid header:
\* both have finished with Err, unsent, and the store has no record of them.
C21_Witness ==
    /\ Finished(<<1, 2>>) /\ task_result[<<1, 2>>] = "Err" /\ send_count[<<1, 2>>] = 0
    /\ Finished(<<1, 4>>) /\ task_result[<<1, 4>>] = "Err" /\ send_count[<<1, 4>>] = 0
    /\ ~HasEntry(task_monitoring_data, "W1", "S2")
    /\ ~HasEntry(task_monitoring_data, "W1", "S4")
    /\ HasEntry(task_monitoring_data, "W1", "S1")

----------------------------------------------------------------------------
(* Further claims checked under SpecCampaign *)

Spawned == {i \in WorkerIds : worker[i] # "none"}
InitialLoad == unwrap_or(lt_cfg.initial_load, 0)

\* C22: in a campaign whose initial_load is at most max_load, current_load
\* never decreases and never exceeds max_load, and each tick adds
\* min(spawn_rate, max_load - current_load) to it and spawns as many workers.
C22_LoadRampsToMaxLoad ==
    /\ []((lt_pc # "start" /\ InitialLoad <= max_load(lt_cfg)) =>
             current_load <= max_load(lt_cfg))
    /\ [][current_load' >= current_load]_vars
    /\ [][(lt_pc = "tick" /\ lt_pc' = "join" /\ InitialLoad <= max_load(lt_cfg)) =>
             LET n == Min(spawn_rate(lt_cfg), max_load(lt_cfg) - current_load)
             IN  /\ current_load' = current_load + n
                 /\ Cardinality(Spawned') = n
                 /\ Spawned = {}]_vars

\* The second tick of a campaign with spawn_rate 2 and max_load 3 has added
\* the one user that was left below max_load, and spawned one worker.
C22_Witness ==
    /\ lt_pc = "join" /\ ticks = 2
    /\ lt_cfg.spawn_rate = {2} /\ lt_cfg.max_load = {3} /\ lt_cfg.initial_load = {}
    /\ current_load = 3
    /\ Cardinality(Spawned) = 1

----------------------------------------------------------------------------
(* Claims checked under SpecRamp *)

\* C23 (as claimed): with initial_load 1, max_load 3, spawn_rate 1 and a
\* budget of 5 seconds that does not run out, the campaign makes exactly 3
\* ticks, at the loads 1, 2 and 3 in that order.
C23_ThreeRampTicks ==
    /\ lt_pc = "join" => current_load = ticks
    /\ (lt_pc = "returned" /\ elapsed < max_duration(lt_cfg)) => ticks = 3

----------------------------------------------------------------------------
(* Claims checked under SpecCampaign: the start and the end of a campaign *)

\* C24 (as claimed): a campaign whose LoadTestConfig leaves initial_load
\* unset enters its loop with current_load = 1.
C24_DefaultInitialLoadIsOne ==
    (lt_cfg.initial_load = {} /\ lt_pc # "start" /\ ticks = 0) => current_load = 1

Total(results) == results["2xx"] + results["non2xx"] + results["err"]

\* C26: a worker that panics counts as one failed outcome and takes nothing
\* else with it: the join of its tick adds one entry per worker of the tick
\* to all_results, the panicked ones as Err and the others as they returned,
\* the campaign goes on to its loop or its end as after any tick, and a
\* campaign that has returned has written its metrics.
C26_PanicIsOneFailure ==
    /\ [][(lt_pc = "join" /\ lt_pc' # "join") =>
             /\ \A o \in Responded :
                   all_results'[o] = all_results[o] + Cardinality({i \in WorkerIds : worker[i] = o})
             /\ all_results'["err"] = all_results["err"]
                   + Cardinality({i \in WorkerIds : worker[i] \in {"err", "panicked"}})
             /\ lt_pc' = IF elapsed >= max_duration(lt_cfg) THEN "analyze" ELSE "loop"]_vars
    /\ [](lt_pc = "returned" =>
             HasEntry(load_test_monitoring_data, Workflows[1].name, LtApi.name))
    /\ [](lt_pc \in {"analyze", "returned"} =>
             Total(all_results) = current_load - InitialLoad)

\* In the second tick of a campaign the only worker has panicked; the two
\* workers of the first tick are in all_results, one with a 2xx and one
\* failed, and the panicked worker's permit is free again.
C26_Witness ==
    /\ lt_pc = "join" /\ ticks = 2
    /\ lt_cfg.spawn_rate = {2} /\ lt_cfg.max_load = {3} /\ lt_cfg.initial_load = {0}
    /\ worker[1] = "panicked" /\ worker[2] = "none"
    /\ permits = current_load
    /\ all_results = [o \in Outcomes |-> IF o = "non2xx" THEN 0 ELSE 1]

Unfinished == {i \in WorkerIds : worker[i] \in {"waiting", "inflight"}}

\* C27: the end of the budget during a tick aborts no request: a worker that
\* waits or is in flight is never dropped, the campaign leaves the join of a
\* tick only when every worker of the tick has ended, and when it analyses
\* and writes its results no worker is left and all_results holds one entry
\* for every worker that was spawned.
C27_BudgetEndAbortsNoWorker ==
    /\ [][\A i \in Unfinished : worker'[i] # "none"]_vars
    /\ [][(lt_pc = "join" /\ elapsed >= max_duration(lt_cfg) /\ Unfinished # {}) =>
             lt_pc' = "join"]_vars
    /\ [](lt_pc \in {"analyze", "returned"} =>
             /\ Spawned = {}
             /\ Total(all_results) = current_load - InitialLoad)

\* The budget of one second has run out with the first tick, below max_load;
\* both workers of the tick ended with a 2xx and the campaign has written
\* two requests.
C27_Witness ==
    /\ lt_pc = "returned" /\ ticks = 1
    /\ lt_cfg = [initial_load |-> {}, max_load |-> {3}, spawn_rate |-> {2},
                 max_duration_secs |-> {1}]
    /\ elapsed = 1 /\ current_load = 2
    /\ all_results["2xx"] = 2
    /\ load_test_monitoring_data[Workflows[1].name][LtApi.name].total_requests = 2

----------------------------------------------------------------------------
(* Claims checked under SpecCampaignFair *)

----------------------------------------------------------------------------
(* Claims checked under SpecCampaignEnd *)

\* C25: a campaign whose initial_load is at least max_load makes no tick and
\* spawns no worker, and when it has returned the store holds its record for
\* (workflow, step), with total_requests, success_count, failure_count and
\* the 95th percentile all 0.
C25_NoTickStillWrites ==
    (lt_pc # "start" /\ InitialLoad >= max_load(lt_cfg)) =>
       /\ ticks = 0 /\ Spawned = {}
       /\ all_results = [o \in Outcomes |-> 0]
       /\ ag_all_results = << >>
       /\ lt_pc = "returned" =>
             /\ HasEntry(load_test_monitoring_data, Workflows[1].name, LtApi.name)
             /\ Written.total_requests = 0
             /\ Written.success_count = 0 /\ Written.failure_count = 0
             /\ Written.percentile_95th_response_time_ms = 0
             /\ Written.status_code_distribution = EmptyMap

\* A campaign with initial_load 2 and max_load 1 has returned: its record is
\* in the store.
C25_Witness ==
    /\ lt_pc = "returned"
    /\ lt_cfg.initial_load = {2} /\ lt_cfg.max_load = {1}
    /\ ticks = 0 /\ elapsed = 0
    /\ HasEntry(load_test_monitoring_data, Workflows[1].name, LtApi.name)
    /\ Written.total_requests = 0

----------------------------------------------------------------------------
(* Further claims checked under SpecLocks *)

LocksHeldBy(c) == {l \in LockNames : Locks[l] = c}

\* C29 (as claimed): no writer, query handler or trigger handler ever holds
\* two of the three locks, of AppState (the flag), of the plain map and of
\* the load-test map, at the same time.
C29_AtMostOneLockHeld ==
    \A c \in Callers : Cardinality(LocksHeldBy(c)) <= 1

----------------------------------------------------------------------------
(* Claims checked under SpecPercentile *)

\* ceil(0.95 * n): the least k with k >= 0.95 * n
Ceil95(n) == CHOOSE k \in 0..n : 100 * k >= 95 * n /\ 100 * (k - 1) < 95 * n
Below(v) == Cardinality({i \in DOMAIN filtered_results : filtered_results[i].duration_ms < v})
UpTo(v) == Cardinality({i \in DOMAIN filtered_results : filtered_results[i].duration_ms <= v})

\* C30: for a non-empty list of n responses the 95th percentile is the
\* element at the 0-based index ceil(0.95 * n) - 1 of the durations in
\* ascending order, which lies in 0..n-1: at most that many durations are
\* smaller and more than that many are not larger. For n = 20 the index is
\* 18.
C30_PercentileIndex ==
    (ag_metrics # {} /\ filtered_results # << >>) =>
       LET n == Len(filtered_results)
           idx == Ceil95(n) - 1
           v == analyzed.percentile_95th_response_time_ms
       IN  /\ idx \in 0..(n - 1)
           /\ percentile_95th_index(n) = idx + 1
           /\ Below(v) <= idx /\ idx < UpTo(v)
           /\ n = 20 => idx = 18

\* Twenty responses with durations 7, 14, 21, 5, 12, 19, 3, ... (all
\* different, not in order) are analysed: the 19th smallest, 21, is the 95th
\* percentile and 22 the maximum.
C30_Witness ==
    /\ ag_metrics # {}
    /\ Len(filtered_results) = 20
    /\ filtered_results[1].duration_ms = 7 /\ filtered_results[4].duration_ms = 5
    /\ analyzed.percentile_95th_response_time_ms = 21
    /\ analyzed.max_response_time_ms = 22

\* The duration that is k-th smallest among the responses analysed
IsKth(v, k) == Below(v) < k /\ k <= UpTo(v)
KthSmallest(k) ==
    CHOOSE v \in {filtered_results[i].duration_ms : i \in DOMAIN filtered_results} : IsKth(v, k)

\* C31 (as claimed): for an even number of responses the median is the exact
\* average of the two central durations, so twice the median is their sum.
C31_MedianExactAverage ==
    (ag_metrics # {} /\ filtered_results # << >> /\ Len(filtered_results) % 2 = 0) =>
       LET h == Len(filtered_results) \div 2
       IN  2 * analyzed.median_response_time_ms = KthSmallest(h) + KthSmallest(h + 1)

\* C31 (amended): for an even number of responses the median is the average
\* of the two central sorted durations rounded down to a whole millisecond,
\* and for an odd number it is the single central sorted duration.
C31_MedianOfMiddles ==
    (ag_metrics # {} /\ filtered_results # << >>) =>
       LET n == Len(filtered_results)
           h == n \div 2
           m == analyzed.median_response_time_ms
       IN  /\ n % 2 = 0 => m = (KthSmallest(h) + KthSmallest(h + 1)) \div 2
           /\ n % 2 = 1 => m = KthSmallest(h + 1)

\* Four responses of 7, 14, 21 and 5 ms are analysed: the central durations
\* are 7 and 14 and the median is 10.
C31_Witness ==
    /\ ag_metrics # {}
    /\ Len(filtered_results) = 4
    /\ filtered_results[1].duration_ms = 7 /\ filtered_results[2].duration_ms = 14
    /\ filtered_results[3].duration_ms = 21 /\ filtered_results[4].duration_ms = 5
    /\ analyzed.median_response_time_ms = 10

----------------------------------------------------------------------------
(* Claims checked under SpecWrites *)

\* Every entry of m2 other than that of (w, s) is as it is in m
SameExcept(m, m2, w, s) ==
    \A k \in Keys : k # <<w, s>> => Entry(m2, k[1], k[2]) = Entry(m, k[1], k[2])
\* Writer p is at its insert in this state and has returned in the next
Inserts(p) == wr[p].pc = "w_both" /\ wr'[p].pc = "idle"

\* C32: the two maps are independent. A campaign's write sets the load-test
\* map's entry for (workflow name, step name) to its record, whatever was
\* there, and changes no other entry of it, nor the plain map, nor
\* monitoring_started; a single step's write does the same to the plain map
\* and leaves the load-test map and monitoring_started alone. Neither map
\* changes in any other way.
C32_NamespacesIndependent ==
    /\ [][\A p \in Writers : Inserts(p) =>
             LET t == wr[p].t
                 d == CHOOSE x \in wr[p].data : TRUE
             IN  /\ monitoring_started' = monitoring_started
                 /\ IsLoadTest(t) =>
                       /\ task_monitoring_data' = task_monitoring_data
                       /\ Entry(load_test_monitoring_data', WfName(t), TaskName(t)) = {d}
                       /\ SameExcept(load_test_monitoring_data, load_test_monitoring_data',
                                     WfName(t), TaskName(t))
                 /\ IsTask(t) =>
                       /\ load_test_monitoring_data' = load_test_monitoring_data
                       /\ Entry(task_monitoring_data', WfName(t), TaskName(t)) = {d}
                       /\ SameExcept(task_monitoring_data, task_monitoring_data',
                                     WfName(t), TaskName(t))]_vars
    /\ [][load_test_monitoring_data' # load_test_monitoring_data =>
             \E p \in Writers : Inserts(p) /\ IsLoadTest(wr[p].t)]_vars
    /\ [][task_monitoring_data' # task_monitoring_data =>
             \E p \in Writers : Inserts(p) /\ IsTask(wr[p].t)]_vars

\* With the flag set, both plain steps of W1 and its campaign have written;
\* the campaign's entry holds a total of 1 and a second campaign write, with
\* a total of 0, holds both locks and is about to replace it.
C32_Witness ==
    /\ monitoring_started
    /\ HasEntry(task_monitoring_data, "W1", "S1")
    /\ HasEntry(task_monitoring_data, "W1", "S2")
    /\ ~HasEntry(task_monitoring_data, "W1", "S3")
    /\ HasEntry(load_test_monitoring_data, "W1", "S3")
    /\ load_test_monitoring_data["W1"]["S3"].total_requests = 1
    /\ DOMAIN load_test_monitoring_data["W1"] = {"S3"}
    /\ wr[1].pc = "w_both" /\ wr[1].t = <<1, 3>>
    /\ \A d \in wr[1].data : d.total_requests = 0

----------------------------------------------------------------------------
(* Further claims checked under SpecCampaign *)

\* C33: the ticks of a campaign do not overlap. A tick spawns its workers
\* only when no worker is waiting or in flight, their number is the tick's
\* new_users, none is added while the tick is joined, and the loop goes on
\* only when every one of them is done: requests are in flight only during
\* the join of the current tick and number at most its new_users.
C33_TicksNeverOverlap ==
    /\ [][(lt_pc = "tick" /\ lt_pc' = "join") =>
             /\ Unfinished = {}
             /\ Cardinality(Spawned') = new_users(lt_cfg, current_load)
             /\ Cardinality(Spawned') = current_load' - current_load]_vars
    /\ [][(lt_pc = "join" /\ lt_pc' = "join") =>
             Spawned' = Spawned /\ current_load' = current_load]_vars
    /\ [][(lt_pc = "join" /\ lt_pc' # "join") => Unfinished = {}]_vars
    /\ [](Unfinished # {} => lt_pc = "join")
    /\ [](lt_pc = "join" =>
             Cardinality(InFlight) <= Min(spawn_rate(lt_cfg), current_load - InitialLoad))

\* The first tick's two workers are done and joined; the second tick has
\* spawned the one worker max_load leaves room for, and its request is in
\* flight.
C33_Witness ==
    /\ lt_pc = "join" /\ ticks = 2
    /\ lt_cfg.spawn_rate = {2} /\ lt_cfg.max_load = {3} /\ lt_cfg.initial_load = {0}
    /\ Total(all_results) = 2
    /\ Spawned = {1} /\ InFlight = {1}
    /\ current_load = 3

----------------------------------------------------------------------------
(* Claims checked under SpecLoadTestFair *)

Headroom == Max(max_load(lt_cfg) - InitialLoad, 0)

\* C35 (as claimed): a campaign that has returned spawned current_load -
\* initial_load workers, which is at most max_load - initial_load, and the
\* total_requests it wrote is at most max_load - initial_load.
C35_SpawnedAtMostMaxMinusInitial ==
    lt_pc = "returned" =>
       /\ Total(all_results) = current_load - InitialLoad
       /\ Total(all_results) <= max_load(lt_cfg) - InitialLoad
       /\ Written.total_requests <= max_load(lt_cfg) - InitialLoad

\* C35 (amended): the workers spawned so far number current_load minus the
\* load the campaign started from (initial_load, 0 when unset), the starting
\* load itself issuing no request; that is at most max_load minus the
\* starting load when the starting load is below max_load and none
\* otherwise, and the total_requests written is at most the same.
C35_SpawnedIsLoadGained ==
    /\ lt_pc \in {"loop", "tick", "join", "analyze", "returned"} =>
          /\ Total(all_results) + Cardinality(Spawned) = current_load - InitialLoad
          /\ Total(all_results) + Cardinality(Spawned) <= Headroom
    /\ lt_pc = "returned" =>
          /\ Total(all_results) = current_load - InitialLoad
          /\ Written.total_requests <= Headroom

\* A campaign from a load of 1 to a load of 3 has returned: its one tick
\* spawned two workers, both got a response, and total_requests is 2.
C35_Witness ==
    /\ lt_pc = "returned"
    /\ lt_cfg.initial_load = {1} /\ lt_cfg.max_load = {3} /\ lt_cfg.spawn_rate = {2}
    /\ ticks = 1 /\ current_load = 3
    /\ Total(all_results) = 2
    /\ Written.total_requests = 2

----------------------------------------------------------------------------
(* Further claims checked under SpecWorkflow *)

\* The steps with load_test set and no load_test_config
Skipped == {t \in AllTasks : Api(t[1], t[2]).load_test /\ ~Api(t[1], t[2]).has_load_test_config}
InEitherMap(t) ==
    \/ HasEntry(task_monitoring_data, WfName(t), TaskName(t))
    \/ HasEntry(load_test_monitoring_data, WfName(t), TaskName(t))

\* C36: in a run, a step with load_test set and no load_test_config gets no
\* monitor: it is never executed, sends nothing and is recorded in neither
\* map. Every other step gets one monitor, a load test if load_test is set
\* and a plain task otherwise, so it is recorded only in the map of its kind
\* and only it runs a campaign; it is executed at most once, and exactly once
\* when its workflow is done.
C36_OneMonitorPerConfiguredStep ==
    /\ \A t \in Skipped :
          /\ task_pc[t] = "pending" /\ exec_count[t] = 0
          /\ send_count[t] = 0 /\ write_count[t] = 0
          /\ ~InEitherMap(t)
    /\ \A t \in AllTasks \ Skipped :
          /\ exec_count[t] <= 1
          /\ (t[1] \in sm_wfs /\ WorkflowDone(t[1])) => (exec_count[t] = 1 /\ Finished(t))
          /\ IF Api(t[1], t[2]).load_test
             THEN ~HasEntry(task_monitoring_data, WfName(t), TaskName(t)) /\ send_count[t] = 0
             ELSE /\ ~HasEntry(load_test_monitoring_data, WfName(t), TaskName(t))
                  /\ task_pc[t] # "campaign"

\* start_monitoring has returned from both workflows: S4 of W2, a load_test
\* step without parameters, was left out, the campaign S3 of W1 and the
\* plain steps of W2 ran once each.
C36_Witness ==
    /\ sm_pc = "returned" /\ sm_wfs = WfIds
    /\ <<2, 4>> \in Skipped
    /\ task_pc[<<2, 4>>] = "pending" /\ exec_count[<<2, 4>>] = 0
    /\ exec_count[<<1, 3>>] = 1
    /\ HasEntry(load_test_monitoring_data, "W1", "S3")
    /\ \A i \in 1..3 : exec_count[<<2, i>>] = 1
    /\ HasEntry(task_monitoring_data, "W2", "S1")

====
